---- MODULE Spec2Model ----
(***************************************************************************)
(* Author DSL parser (parseAuthorDSL) and its PluginManager.               *)
(*                                                                         *)
(* Strings are sequences of one-character strings, so that trim, indexOf,  *)
(* split, startsWith/endsWith and the Begin/End regular expressions are    *)
(* computed character by character as the source computes them.            *)
(* JavaScript objects that are shared by reference (the frames on the      *)
(* block stack) live in a heap and are referred to by their index.         *)
(***************************************************************************)
EXTENDS Integers, Sequences, FiniteSets, TLC

(***************************************************************************)
(* String primitives (String.prototype of the host language)               *)
(***************************************************************************)

\* the characters matched by \s and removed by trim()
WhiteSpace == {" ", "\t", "\r", "\n"}

\* case folding used by the /i flag of the Begin/End regular expressions
ToLower(c) ==
  CASE c = "B" -> "b"
    [] c = "E" -> "e"
    [] c = "G" -> "g"
    [] c = "I" -> "i"
    [] c = "N" -> "n"
    [] c = "D" -> "d"
    [] c = "A" -> "a"
    [] c = "M" -> "m"
    [] c = "X" -> "x"
    [] OTHER -> c

\* String.prototype.toUpperCase, on the letters the inputs are written with
ToUpper(c) ==
  CASE c = "a" -> "A"
    [] c = "b" -> "B"
    [] c = "d" -> "D"
    [] c = "e" -> "E"
    [] c = "g" -> "G"
    [] c = "i" -> "I"
    [] c = "m" -> "M"
    [] c = "n" -> "N"
    [] c = "x" -> "X"
    [] OTHER -> c

RECURSIVE TrimStart(_)
TrimStart(s) ==
  IF s = <<>> THEN <<>>
  ELSE IF Head(s) \in WhiteSpace THEN TrimStart(Tail(s)) ELSE s

RECURSIVE TrimEnd(_)
TrimEnd(s) ==
  IF s = <<>> THEN <<>>
  ELSE IF s[Len(s)] \in WhiteSpace THEN TrimEnd(SubSeq(s, 1, Len(s) - 1)) ELSE s

Trim(s) == TrimEnd(TrimStart(s))

StartsWith(s, p) == Len(s) >= Len(p) /\ SubSeq(s, 1, Len(p)) = p

EndsWith(s, p) == Len(s) >= Len(p) /\ SubSeq(s, Len(s) - Len(p) + 1, Len(s)) = p

\* String.prototype.indexOf for a single character, 1-based; 0 when absent
IndexOf(s, c) ==
  IF \E k \in 1..Len(s) : s[k] = c
  THEN CHOOSE k \in 1..Len(s) : s[k] = c /\ \A j \in 1..(k - 1) : s[j] # c
  ELSE 0

Includes(s, c) == IndexOf(s, c) # 0

\* String.prototype.split on a single character
RECURSIVE SplitOn(_, _)
SplitOn(s, c) ==
  LET k == IndexOf(s, c) IN
  IF k = 0 THEN <<s>>
  ELSE <<SubSeq(s, 1, k - 1)>> \o SplitOn(SubSeq(s, k + 1, Len(s)), c)

\* String.prototype.slice(from) with from >= 0 counted in characters
SliceFrom(s, from) == SubSeq(s, from + 1, Len(s))

\* String.prototype.slice(0, -n)
SliceDropLast(s, n) == SubSeq(s, 1, Len(s) - n)

\* String.prototype.slice(1, -1)
SliceInner(s) == SubSeq(s, 2, Len(s) - 1)

\* Array.prototype.join with a one-character separator
RECURSIVE Join(_, _)
Join(parts, sep) ==
  IF parts = <<>> THEN <<>>
  ELSE IF Len(parts) = 1 THEN parts[1]
  ELSE parts[1] \o <<sep>> \o Join(Tail(parts), sep)

\* input.split(/\r?\n/)
RECURSIVE SplitLines(_)
SplitLines(text) ==
  LET k == IndexOf(text, "\n") IN
  IF k = 0 THEN <<text>>
  ELSE LET before == SubSeq(text, 1, k - 1)
           piece  == IF before # <<>> /\ before[Len(before)] = "\r"
                     THEN SubSeq(before, 1, Len(before) - 1) ELSE before
       IN <<piece>> \o SplitLines(SubSeq(text, k + 1, Len(text)))

ToLowerStr(s) == [k \in 1..Len(s) |-> ToLower(s[k])]

ToUpperStr(s) == [k \in 1..Len(s) |-> ToUpper(s[k])]

\* length of the match of /^<keyword>\s+/i at the start of s, 0 when no match
RECURSIVE CountLeadingWS(_)
CountLeadingWS(s) ==
  IF s # <<>> /\ Head(s) \in WhiteSpace THEN 1 + CountLeadingWS(Tail(s)) ELSE 0

KeywordMatchLen(s, keyword) ==
  IF Len(s) > Len(keyword)
     /\ ToLowerStr(SubSeq(s, 1, Len(keyword))) = keyword
     /\ s[Len(keyword) + 1] \in WhiteSpace
  THEN Len(keyword) + CountLeadingWS(SliceFrom(s, Len(keyword)))
  ELSE 0

BeginKeyword == <<"b", "e", "g", "i", "n">>
EndKeyword == <<"e", "n", "d">>
TripleQuote == <<"\"", "\"", "\"">>

\* /^Begin\s+/i.test(line)
TestBegin(line) == KeywordMatchLen(line, BeginKeyword) > 0
\* /^End\s+/i.test(line)
TestEnd(line) == KeywordMatchLen(line, EndKeyword) > 0
\* line.replace(/^Begin\s+/i, "").trim()
BeginName(line) == Trim(SliceFrom(line, KeywordMatchLen(line, BeginKeyword)))
\* line.replace(/^End\s+/i, "").trim()
EndName(line) == Trim(SliceFrom(line, KeywordMatchLen(line, EndKeyword)))

(***************************************************************************)
(* Values of the document                                                  *)
(***************************************************************************)

Undefined == [t |-> "undef"]
Str(s) == [t |-> "str", s |-> s]
Arr(a) == [t |-> "arr", a |-> a]
\* the object literal { type, value }
TypedPair(type, value) == [t |-> "pair", type |-> type, value |-> value]
\* a reference to a frame (a block object) of the heap
Ref(id) == [t |-> "ref", id |-> id]
\* what plugin `by` returned from processValue(arg, type, context)
PluginValue(by, type, arg) == [t |-> "plug", by |-> by, type |-> type, arg |-> arg]
\* the value plugin `by` returned from onKeyValue when given the value `of`
Hooked(by, of) == [t |-> "hook", by |-> by, of |-> of]

\* a frame is a function from the keys it has to their values
EmptyFrame == <<>>
Get(obj, key) == IF key \in DOMAIN obj THEN obj[key] ELSE Undefined
Put(obj, key, value) ==
  [k \in (DOMAIN obj) \cup {key} |-> IF k = key THEN value ELSE obj[k]]

\* ToBoolean: undefined and the empty string are falsy, objects and arrays truthy
Truthy(v) ==
  CASE v.t = "undef" -> FALSE
    [] v.t = "str" -> v.s # <<>>
    [] OTHER -> TRUE

IsArray(v) == v.t = "arr"

(***************************************************************************)
(* Errors                                                                  *)
(***************************************************************************)

\* a nullable value is <<>> (null) or <<v>>
Null == <<>>
Some(v) == <<v>>

\* `cause` is the underlying message a plugin error interpolates
NoError ==
  [kind |-> "none", code |-> "", lineNumber |-> 0, line |-> Null,
   info |-> <<>>, plugin |-> "", cause |-> ""]

\* new DSLParseError(message, lineNumber, line); info holds the strings the
\* message interpolates; lineNumber 0 stands for null
DSLParseError(code, lineNumber, line, info) ==
  [kind |-> "DSLParseError", code |-> code, lineNumber |-> lineNumber,
   line |-> line, info |-> info, plugin |-> "", cause |-> ""]

\* what the runtime raises when a non-function is called
TypeError(code) ==
  [kind |-> "TypeError", code |-> code, lineNumber |-> 0, line |-> Null,
   info |-> <<>>, plugin |-> "", cause |-> ""]

\* new Error(message), as thrown by formatData; info holds the interpolated tag
PlainError(code, info) ==
  [kind |-> "Error", code |-> code, lineNumber |-> 0, line |-> Null,
   info |-> info, plugin |-> "", cause |-> ""]

\* what a plugin throws: new Error(message), or a string (throw "text"),
\* which has no message property
ErrorObject(message) == [message |-> Some(message), text |-> message]
ThrownString(text) == [message |-> Null, text |-> text]
ThrownValue == ThrownString("")

\* originalError?.message || 'Unknown error'
MessageOf(originalError) ==
  IF originalError.message # Null /\ originalError.message[1] # ""
  THEN originalError.message[1] ELSE "Unknown error"

\* createPluginError giving every failure the same code
createPluginError_OneCode(pluginName, code, originalError) ==
  [kind |-> "PluginError", code |-> "PLUGIN_FAILED", lineNumber |-> 0, line |-> Null,
   info |-> <<>>, plugin |-> pluginName, cause |-> MessageOf(originalError)]

createPluginError(pluginName, code, originalError) ==
  [kind |-> "PluginError", code |-> code, lineNumber |-> 0, line |-> Null,
   info |-> <<>>, plugin |-> pluginName, cause |-> MessageOf(originalError)]

(***************************************************************************)
(* Pure helpers of the parser                                              *)
(***************************************************************************)

validateInput(input) ==
  IF Trim(input) = <<>>
  THEN DSLParseError("Input cannot be empty", 0, Null, <<>>)
  ELSE NoError

assignValue(obj, key, value) ==
  IF ~Truthy(Get(obj, key)) THEN Put(obj, key, value)
  ELSE IF IsArray(Get(obj, key))
       THEN Put(obj, key, Arr(Append(obj[key].a, value)))
       ELSE Put(obj, key, Arr(<<obj[key], value>>))

parseKeyValue(line, lineNumber) ==
  LET colonIndex == IndexOf(line, ":")
      key0  == Trim(SubSeq(line, 1, colonIndex - 1))
      value == Trim(SliceFrom(line, colonIndex))
      parts == SplitOn(key0, "@")
      fail(code) == [err |-> DSLParseError(code, lineNumber, Some(line), <<>>),
                     key |-> <<>>, value |-> <<>>, type |-> Null]
  IN
  IF colonIndex = 0 THEN fail("Invalid line format - missing colon")
  ELSE IF key0 = <<>> THEN fail("Empty key not allowed")
  ELSE IF Includes(key0, "@")
       THEN IF Len(parts) # 2 THEN fail("Invalid type syntax - use Key@Type format")
            ELSE IF Trim(parts[2]) = <<>> THEN fail("Empty type not allowed")
            ELSE [err |-> NoError, key |-> Trim(parts[1]), value |-> value,
                  type |-> Some(Trim(parts[2]))]
       ELSE [err |-> NoError, key |-> key0, value |-> value, type |-> Null]

\* value.split(",").map(v => v.trim()).filter(v => v.length > 0)
RECURSIVE TrimAndDropEmpty(_)
TrimAndDropEmpty(parts) ==
  IF parts = <<>> THEN <<>>
  ELSE IF Trim(Head(parts)) = <<>> THEN TrimAndDropEmpty(Tail(parts))
       ELSE <<Str(Trim(Head(parts)))>> \o TrimAndDropEmpty(Tail(parts))

processValue(value) ==
  LET unquoted == IF StartsWith(value, <<"\"">>) /\ EndsWith(value, <<"\"">>)
                  THEN SliceInner(value) ELSE value
  IN IF Includes(unquoted, ",")
     THEN Arr(TrimAndDropEmpty(SplitOn(unquoted, ",")))
     ELSE Str(unquoted)

\* handleMultilineContent buffering the trimmed line
handleMultilineContent_Trimmed(line, multilineBuffer) ==
  IF EndsWith(Trim(line), TripleQuote)
  THEN [closed |-> TRUE,
        buffer |-> Append(multilineBuffer, SliceDropLast(Trim(line), 3))]
  ELSE [closed |-> FALSE, buffer |-> Append(multilineBuffer, Trim(line))]

\* handleMultilineContent leaving the closing marker on the closing line
handleMultilineContent_KeepMarker(line, multilineBuffer) ==
  IF EndsWith(Trim(line), TripleQuote)
  THEN [closed |-> TRUE, buffer |-> Append(multilineBuffer, Trim(line))]
  ELSE [closed |-> FALSE, buffer |-> Append(multilineBuffer, line)]

handleMultilineContent(line, multilineBuffer) ==
  IF EndsWith(Trim(line), TripleQuote)
  THEN [closed |-> TRUE,
        buffer |-> Append(multilineBuffer, SliceDropLast(Trim(line), 3))]
  ELSE [closed |-> FALSE, buffer |-> Append(multilineBuffer, line)]

\* handleBlockStart leaving the enclosing frame on top of the stack
handleBlockStart_PushParent(line, lineNumber, hp, stk, names) ==
  LET name     == BeginName(line)
      newBlock == Len(hp) + 1
      cur      == stk[Len(stk)]
      old      == Get(hp[cur], name)
      listed   == IF ~Truthy(old) THEN Arr(<<>>) ELSE old
      unchanged(e) == [err |-> e, heap |-> hp, stack |-> stk, blockNames |-> names]
  IN
  IF name = <<>>
  THEN unchanged(DSLParseError("Empty block name not allowed", lineNumber, Some(line), <<>>))
  ELSE IF ~IsArray(listed)
       THEN unchanged(TypeError("current[name].push is not a function"))
       ELSE [err |-> NoError,
             heap |-> Append([hp EXCEPT ![cur] =
                                Put(hp[cur], name, Arr(Append(listed.a, Ref(newBlock))))],
                             EmptyFrame),
             stack |-> Append(stk, cur),
             blockNames |-> Append(names, name)]

\* handleBlockStart adding the name at the front of blockNames (unshift)
handleBlockStart_Unshift(line, lineNumber, hp, stk, names) ==
  LET name     == BeginName(line)
      newBlock == Len(hp) + 1
      cur      == stk[Len(stk)]
      old      == Get(hp[cur], name)
      listed   == IF ~Truthy(old) THEN Arr(<<>>) ELSE old
      unchanged(e) == [err |-> e, heap |-> hp, stack |-> stk, blockNames |-> names]
  IN
  IF name = <<>>
  THEN unchanged(DSLParseError("Empty block name not allowed", lineNumber, Some(line), <<>>))
  ELSE IF ~IsArray(listed)
       THEN unchanged(TypeError("current[name].push is not a function"))
       ELSE [err |-> NoError,
             heap |-> Append([hp EXCEPT ![cur] =
                                Put(hp[cur], name, Arr(Append(listed.a, Ref(newBlock))))],
                             EmptyFrame),
             stack |-> Append(stk, newBlock),
             blockNames |-> <<name>> \o names]

\* the frames are heap objects; stack holds their indices
handleBlockStart(line, lineNumber, hp, stk, names) ==
  LET name     == BeginName(line)
      newBlock == Len(hp) + 1
      cur      == stk[Len(stk)]
      old      == Get(hp[cur], name)
      listed   == IF ~Truthy(old) THEN Arr(<<>>) ELSE old
      unchanged(e) == [err |-> e, heap |-> hp, stack |-> stk, blockNames |-> names]
  IN
  IF name = <<>>
  THEN unchanged(DSLParseError("Empty block name not allowed", lineNumber, Some(line), <<>>))
  ELSE IF ~IsArray(listed)
       THEN \* current[name].push is not a function
            unchanged(TypeError("current[name].push is not a function"))
       ELSE [err |-> NoError,
             heap |-> Append([hp EXCEPT ![cur] =
                                Put(hp[cur], name, Arr(Append(listed.a, Ref(newBlock))))],
                             EmptyFrame),
             stack |-> Append(stk, newBlock),
             blockNames |-> Append(names, name)]

\* handleBlockEnd comparing the names without regard to case
handleBlockEnd_IgnoreCase(line, lineNumber, stk, names) ==
  LET name == EndName(line)
      last == names[Len(names)]
      popped == SubSeq(names, 1, Len(names) - 1)
  IN
  IF name = <<>>
  THEN [err |-> DSLParseError("Empty block name not allowed", lineNumber, Some(line), <<>>),
        stack |-> stk, blockNames |-> names]
  ELSE IF Len(names) = 0
  THEN [err |-> DSLParseError("No open blocks to close", lineNumber, Some(line), <<>>),
        stack |-> stk, blockNames |-> names]
  ELSE IF ToLowerStr(last) # ToLowerStr(name)
  THEN [err |-> DSLParseError("Mismatched End", lineNumber, Some(line), <<last, name>>),
        stack |-> stk, blockNames |-> popped]
  ELSE [err |-> NoError, stack |-> SubSeq(stk, 1, Len(stk) - 1), blockNames |-> popped]

\* handleBlockEnd without the final stack.pop()
handleBlockEnd_NoFramePop(line, lineNumber, stk, names) ==
  LET name == EndName(line)
      last == names[Len(names)]
      popped == SubSeq(names, 1, Len(names) - 1)
  IN
  IF name = <<>>
  THEN [err |-> DSLParseError("Empty block name not allowed", lineNumber, Some(line), <<>>),
        stack |-> stk, blockNames |-> names]
  ELSE IF Len(names) = 0
  THEN [err |-> DSLParseError("No open blocks to close", lineNumber, Some(line), <<>>),
        stack |-> stk, blockNames |-> names]
  ELSE IF last # name
  THEN [err |-> DSLParseError("Mismatched End", lineNumber, Some(line), <<last, name>>),
        stack |-> stk, blockNames |-> popped]
  ELSE [err |-> NoError, stack |-> stk, blockNames |-> popped]

handleBlockEnd(line, lineNumber, stk, names) ==
  LET name == EndName(line)
      last == names[Len(names)]
      popped == SubSeq(names, 1, Len(names) - 1)
  IN
  IF name = <<>>
  THEN [err |-> DSLParseError("Empty block name not allowed", lineNumber, Some(line), <<>>),
        stack |-> stk, blockNames |-> names]
  ELSE IF Len(names) = 0
  THEN [err |-> DSLParseError("No open blocks to close", lineNumber, Some(line), <<>>),
        stack |-> stk, blockNames |-> names]
  ELSE IF last # name
  THEN [err |-> DSLParseError("Mismatched End", lineNumber, Some(line), <<last, name>>),
        stack |-> stk, blockNames |-> popped]
  ELSE [err |-> NoError, stack |-> SubSeq(stk, 1, Len(stk) - 1), blockNames |-> popped]

(***************************************************************************)
(* Plugins and the PluginManager                                           *)
(*                                                                         *)
(* A plugin object is a record: its metadata name, the identity of the     *)
(* object, the properties it has (`has`, what the `in` operator and the    *)
(* truthiness tests of optional methods see), its declared tags and the    *)
(* set of its methods that throw when called.                              *)
(***************************************************************************)

\* plugin.processValue(value, type, context)
PluginProcessValue(p, value, type) == PluginValue(p.name, type, value)

\* plugin.onKeyValue(key, value, context): null means "no change"
PluginOnKeyValue(p, key, value) ==
  CASE p.kvOp = "retag" -> Some([key |-> key, value |-> PluginValue(p.name, <<>>, <<>>)])
    [] p.kvOp = "wrap" -> Some([key |-> key, value |-> Hooked(p.name, value)])
    [] p.kvOp = "rename" -> Some([key |-> key \o <<"2">>, value |-> value])
    [] OTHER -> Null

\* plugin.beforeParse(input)
PluginBeforeParse(p, text) ==
  CASE p.textOp = "comment" -> <<"#", "\n">> \o text
    [] p.textOp = "upper" -> ToUpperStr(text)
    [] p.textOp = "append" -> text \o <<"\n", "a", ":", " ", "b">>
    [] OTHER -> text

\* plugin.validate(data): the warnings of the plugin
PluginValidate(p) == <<p.name>>

\* plugin.validateValue(value, type, context)
PluginValidateValue(p, type) == <<p.name>>

\* the string plugin `by` returned from format(data, options)
Text(by) == [t |-> "text", by |-> by]
\* a list of warning strings
Warnings(list) == [t |-> "warnings", list |-> list]
\* the object { key, value } returned by onKeyValue
KeyValue(key, value) == [t |-> "kv", key |-> key, value |-> value]
\* the document returned by afterParse
Document == [t |-> "data"]

\* new PluginManager(); `present` is FALSE for a call without pluginManager
EmptyManager ==
  [present |-> TRUE, plugins |-> <<>>, typePlugins |-> <<>>,
   validationPlugins |-> <<>>, formatterPlugins |-> <<>>, parserPlugins |-> <<>>]

NoManager == [EmptyManager EXCEPT !.present = FALSE]

isTypePlugin(p) == "supportedTypes" \in p.has /\ "processValue" \in p.has
isValidationPlugin(p) == "validate" \in p.has
isFormatterPlugin(p) == "format" \in p.has /\ "supportedFormats" \in p.has
isParserPlugin(p) ==
  \/ "beforeParse" \in p.has \/ "afterParse" \in p.has \/ "onKeyValue" \in p.has
  \/ "onBlockStart" \in p.has \/ "onBlockEnd" \in p.has

\* this.plugins.get(name)?.options.priority || 0
PriorityOf(entries, name) ==
  IF \E k \in 1..Len(entries) : entries[k].name = name
  THEN entries[CHOOSE k \in 1..Len(entries) : entries[k].name = name].priority
  ELSE 0

\* a map that adds an entry for a key it already holds
MapSet_Append(entries, entry) == Append(entries, entry)

\* Map.prototype.set: an existing key keeps its position
MapSet(entries, entry) ==
  IF \E k \in 1..Len(entries) : entries[k].name = entry.name
  THEN [k \in 1..Len(entries) |->
          IF entries[k].name = entry.name THEN entry ELSE entries[k]]
  ELSE Append(entries, entry)

\* Array.prototype.sort((a, b) => priority(b) - priority(a)), a stable sort
RECURSIVE SortByPriority(_, _)
SortByPriority(list, entries) ==
  IF list = <<>> THEN <<>>
  ELSE LET x      == list[Len(list)]
           sorted == SortByPriority(SubSeq(list, 1, Len(list) - 1), entries)
           pos    == Cardinality({k \in 1..Len(sorted) :
                        PriorityOf(entries, sorted[k].name) >= PriorityOf(entries, x.name)})
       IN SubSeq(sorted, 1, pos) \o <<x>> \o SubSeq(sorted, pos + 1, Len(sorted))

RECURSIVE SetTypes(_, _, _)
SetTypes(map, types, p) ==
  IF types = <<>> THEN map
  ELSE SetTypes(Put(map, Head(types), p), Tail(types), p)

\* registerTypePlugin leaving a type that has a handler with that handler
registerTypePlugin_KeepFirst(m, p) ==
  [m EXCEPT !.typePlugins =
     [type \in (DOMAIN m.typePlugins) \cup {p.supportedTypes[k] : k \in 1..Len(p.supportedTypes)}
        |-> IF type \in DOMAIN m.typePlugins THEN m.typePlugins[type] ELSE p]]

registerTypePlugin(m, p) ==
  [m EXCEPT !.typePlugins = SetTypes(m.typePlugins, p.supportedTypes, p)]

registerValidationPlugin(m, p) ==
  [m EXCEPT !.validationPlugins = SortByPriority(Append(m.validationPlugins, p), m.plugins)]

registerFormatterPlugin(m, p) ==
  [m EXCEPT !.formatterPlugins = Append(m.formatterPlugins, p)]

registerParserPlugin(m, p) ==
  [m EXCEPT !.parserPlugins = SortByPriority(Append(m.parserPlugins, p), m.plugins)]

\* register putting a plugin into the first category it matches only
register_FirstRoleOnly(m, p, options) ==
  LET m0 == [m EXCEPT !.plugins =
               MapSet(m.plugins, [name |-> p.name, plugin |-> p,
                                  enabled |-> options.enabled,
                                  priority |-> options.priority])]
      m4 == IF isTypePlugin(p) THEN registerTypePlugin(m0, p)
            ELSE IF isValidationPlugin(p) THEN registerValidationPlugin(m0, p)
            ELSE IF isFormatterPlugin(p) THEN registerFormatterPlugin(m0, p)
            ELSE IF isParserPlugin(p) THEN registerParserPlugin(m0, p)
            ELSE m0
  IN [manager |-> m4,
      err |-> IF "initialize" \in p.has /\ "initialize" \in p.throws
              THEN createPluginError(p.name, "INIT_FAILED", p.thrown) ELSE NoError]

\* register calling initialize before the plugin is stored and classified: a
\* failing initialize leaves the registry as it was
register_InitializeFirst(m, p, options) ==
  LET m0 == [m EXCEPT !.plugins =
               MapSet(m.plugins, [name |-> p.name, plugin |-> p,
                                  enabled |-> options.enabled,
                                  priority |-> options.priority])]
      m1 == IF isTypePlugin(p) THEN registerTypePlugin(m0, p) ELSE m0
      m2 == IF isValidationPlugin(p) THEN registerValidationPlugin(m1, p) ELSE m1
      m3 == IF isFormatterPlugin(p) THEN registerFormatterPlugin(m2, p) ELSE m2
      m4 == IF isParserPlugin(p) THEN registerParserPlugin(m3, p) ELSE m3
      failed == "initialize" \in p.has /\ "initialize" \in p.throws
  IN [manager |-> IF failed THEN m ELSE m4,
      err |-> IF failed
              THEN createPluginError(p.name, "INIT_FAILED", p.thrown) ELSE NoError]

\* register(plugin, options): the registry after the call and the error thrown
register(m, p, options) ==
  LET m0 == [m EXCEPT !.plugins =
               MapSet(m.plugins, [name |-> p.name, plugin |-> p,
                                  enabled |-> options.enabled,
                                  priority |-> options.priority])]
      m1 == IF isTypePlugin(p) THEN registerTypePlugin(m0, p) ELSE m0
      m2 == IF isValidationPlugin(p) THEN registerValidationPlugin(m1, p) ELSE m1
      m3 == IF isFormatterPlugin(p) THEN registerFormatterPlugin(m2, p) ELSE m2
      m4 == IF isParserPlugin(p) THEN registerParserPlugin(m3, p) ELSE m3
  IN [manager |-> m4,
      err |-> IF "initialize" \in p.has /\ "initialize" \in p.throws
              THEN createPluginError(p.name, "INIT_FAILED", p.thrown) ELSE NoError]

\* the default of the options parameter of register
DefaultOptions == [enabled |-> TRUE, priority |-> 0]

\* one call of a plugin method, as recorded in the call log
Call(p, point, lineNumber) ==
  [plugin |-> p.name, id |-> p.id, point |-> point, lineNumber |-> lineNumber]

\* Map.prototype.delete
MapDelete(map, key) == [k \in (DOMAIN map) \ {key} |-> map[k]]

\* const index = list.indexOf(plugin); if (index > -1) list.splice(index, 1)
RemoveFirst(list, p) ==
  IF \E k \in 1..Len(list) : list[k] = p
  THEN LET index == CHOOSE k \in 1..Len(list) :
                      list[k] = p /\ \A j \in 1..(k - 1) : list[j] # p
       IN SubSeq(list, 1, index - 1) \o SubSeq(list, index + 1, Len(list))
  ELSE list

RECURSIVE DeleteTypes(_, _)
DeleteTypes(map, types) ==
  IF types = <<>> THEN map
  ELSE DeleteTypes(MapDelete(map, Head(types)), Tail(types))

unregisterTypePlugin(m, p) ==
  [m EXCEPT !.typePlugins = DeleteTypes(m.typePlugins, p.supportedTypes)]

unregisterValidationPlugin(m, p) ==
  [m EXCEPT !.validationPlugins = RemoveFirst(m.validationPlugins, p)]

unregisterFormatterPlugin(m, p) ==
  [m EXCEPT !.formatterPlugins = RemoveFirst(m.formatterPlugins, p)]

unregisterParserPlugin(m, p) ==
  [m EXCEPT !.parserPlugins = RemoveFirst(m.parserPlugins, p)]

\* this.plugins.has(pluginName)
isRegistered(m, pluginName) ==
  \E k \in 1..Len(m.plugins) : m.plugins[k].name = pluginName

\* this.plugins.get(pluginName)?.plugin, for a registered name
getPlugin(m, pluginName) ==
  m.plugins[CHOOSE k \in 1..Len(m.plugins) : m.plugins[k].name = pluginName].plugin

\* unregister(pluginName): the registry after the call and the plugin methods
\* it called; what destroy throws is logged by console.warn and not rethrown
unregister(m, pluginName) ==
  IF ~isRegistered(m, pluginName) THEN [manager |-> m, calls |-> <<>>]
  ELSE LET p  == getPlugin(m, pluginName)
           m1 == IF isTypePlugin(p) THEN unregisterTypePlugin(m, p) ELSE m
           m2 == IF isValidationPlugin(p) THEN unregisterValidationPlugin(m1, p) ELSE m1
           m3 == IF isFormatterPlugin(p) THEN unregisterFormatterPlugin(m2, p) ELSE m2
           m4 == IF isParserPlugin(p) THEN unregisterParserPlugin(m3, p) ELSE m3
       IN [manager |-> [m4 EXCEPT !.plugins =
                          SelectSeq(m4.plugins, LAMBDA e : e.name # pluginName)],
           calls |-> IF "destroy" \in p.has THEN <<Call(p, "destroy", 0)>> ELSE <<>>]

\* clear(): unregister every name of Array.from(this.plugins.keys())
RECURSIVE UnregisterAll(_, _, _)
UnregisterAll(m, names, calls) ==
  IF names = <<>> THEN [manager |-> m, calls |-> calls]
  ELSE LET r == unregister(m, Head(names))
       IN UnregisterAll(r.manager, Tail(names), calls \o r.calls)

clear(m) == UnregisterAll(m, [k \in 1..Len(m.plugins) |-> m.plugins[k].name], <<>>)

\* PluginManager.processValue(value, type, context), called with a non-null type
PM_processValue(m, value, type, lineNumber) ==
  IF type \notin DOMAIN m.typePlugins
  THEN [err |-> NoError, value |-> Str(value), calls |-> <<>>]
  ELSE LET p == m.typePlugins[type] IN
       IF "processValue" \in p.throws
       THEN [err |-> createPluginError(p.name, "PROCESS_VALUE_FAILED", p.thrown),
             value |-> Undefined, calls |-> <<Call(p, "processValue", lineNumber)>>]
       ELSE [err |-> NoError, value |-> PluginProcessValue(p, value, type),
             calls |-> <<Call(p, "processValue", lineNumber)>>]

\* PluginManager.validateValue(value, type, context)
PM_validateValue(m, type) ==
  IF type \notin DOMAIN m.typePlugins \/ "validateValue" \notin m.typePlugins[type].has
  THEN [err |-> NoError, value |-> Warnings(<<>>), calls |-> <<>>]
  ELSE LET p == m.typePlugins[type] IN
       IF "validateValue" \in p.throws
       THEN [err |-> createPluginError(p.name, "VALIDATE_VALUE_FAILED", p.thrown),
             value |-> Undefined, calls |-> <<Call(p, "validateValue", 0)>>]
       ELSE [err |-> NoError, value |-> Warnings(PluginValidateValue(p, type)),
             calls |-> <<Call(p, "validateValue", 0)>>]

\* PluginManager.validateData(data)
RECURSIVE ValidateFrom(_, _, _)
ValidateFrom(list, allWarnings, calls) ==
  IF list = <<>> THEN [err |-> NoError, value |-> Warnings(allWarnings), calls |-> calls]
  ELSE LET p == Head(list) IN
       IF "validate" \in p.throws
       THEN [err |-> createPluginError(p.name, "VALIDATE_DATA_FAILED", p.thrown),
             value |-> Undefined, calls |-> Append(calls, Call(p, "validate", 0))]
       ELSE ValidateFrom(Tail(list), allWarnings \o PluginValidate(p),
                         Append(calls, Call(p, "validate", 0)))

\* validateData stepping over a validator that throws
PM_validateData_SkipFailed(m) ==
  ValidateFrom(SelectSeq(m.validationPlugins, LAMBDA p : "validate" \notin p.throws),
               <<>>, <<>>)

PM_validateData(m) == ValidateFrom(m.validationPlugins, <<>>, <<>>)

\* formatData selecting the last registered formatter that declares the format
PM_formatData_Last(m, format) ==
  LET matching == SelectSeq(m.formatterPlugins,
                            LAMBDA p : format \in {p.supportedFormats[k] :
                                                     k \in 1..Len(p.supportedFormats)})
  IN IF matching = <<>>
     THEN [err |-> PlainError("No formatter plugin found for format", <<format>>),
           value |-> Undefined, calls |-> <<>>]
     ELSE LET p == matching[Len(matching)] IN
          IF "format" \in p.throws
          THEN [err |-> createPluginError(p.name, "FORMAT_FAILED", p.thrown),
                value |-> Undefined, calls |-> <<Call(p, "format", 0)>>]
          ELSE [err |-> NoError, value |-> Text(p.name), calls |-> <<Call(p, "format", 0)>>]

\* PluginManager.formatData(data, format, options)
PM_formatData(m, format) ==
  LET matching == SelectSeq(m.formatterPlugins,
                            LAMBDA p : format \in {p.supportedFormats[k] :
                                                     k \in 1..Len(p.supportedFormats)})
  IN IF matching = <<>>
     THEN [err |-> PlainError("No formatter plugin found for format", <<format>>),
           value |-> Undefined, calls |-> <<>>]
     ELSE LET p == matching[1] IN
          IF "format" \in p.throws
          THEN [err |-> createPluginError(p.name, "FORMAT_FAILED", p.thrown),
                value |-> Undefined, calls |-> <<Call(p, "format", 0)>>]
          ELSE [err |-> NoError, value |-> Text(p.name), calls |-> <<Call(p, "format", 0)>>]

\* PluginManager.onKeyValue(key, value, context)
RECURSIVE OnKeyValueFrom(_, _, _, _, _)
OnKeyValueFrom(list, key, value, lineNumber, calls) ==
  IF list = <<>> THEN [err |-> NoError, key |-> key, value |-> value, calls |-> calls]
  ELSE LET p == Head(list) IN
       IF "onKeyValue" \notin p.has
       THEN OnKeyValueFrom(Tail(list), key, value, lineNumber, calls)
       ELSE IF "onKeyValue" \in p.throws
       THEN [err |-> createPluginError(p.name, "ON_KEY_VALUE_FAILED", p.thrown),
             key |-> key, value |-> value,
             calls |-> Append(calls, Call(p, "onKeyValue", lineNumber))]
       ELSE LET r == PluginOnKeyValue(p, key, value) IN
            OnKeyValueFrom(Tail(list),
                           IF r = Null THEN key ELSE r[1].key,
                           IF r = Null THEN value ELSE r[1].value,
                           lineNumber, Append(calls, Call(p, "onKeyValue", lineNumber)))

\* PM_onKeyValue running the parse-hook list from its last entry to its first
PM_onKeyValue_Reversed(m, key, value, atLine) ==
  OnKeyValueFrom([k \in 1..Len(m.parserPlugins) |->
                    m.parserPlugins[Len(m.parserPlugins) + 1 - k]],
                 key, value, atLine, <<>>)

PM_onKeyValue(m, key, value, lineNumber) ==
  OnKeyValueFrom(m.parserPlugins, key, value, lineNumber, <<>>)

\* PluginManager.onBlockStart / onBlockEnd(blockName, context)
RECURSIVE OnBlockFrom(_, _, _, _, _)
OnBlockFrom(list, point, code, lineNumber, calls) ==
  IF list = <<>> THEN [err |-> NoError, calls |-> calls]
  ELSE LET p == Head(list) IN
       IF point \notin p.has
       THEN OnBlockFrom(Tail(list), point, code, lineNumber, calls)
       ELSE IF point \in p.throws
       THEN [err |-> createPluginError(p.name, code, p.thrown),
             calls |-> Append(calls, Call(p, point, lineNumber))]
       ELSE OnBlockFrom(Tail(list), point, code, lineNumber,
                        Append(calls, Call(p, point, lineNumber)))

PM_onBlockStart(m, lineNumber) ==
  OnBlockFrom(m.parserPlugins, "onBlockStart", "ON_BLOCK_START_FAILED", lineNumber, <<>>)

PM_onBlockEnd(m, lineNumber) ==
  OnBlockFrom(m.parserPlugins, "onBlockEnd", "ON_BLOCK_END_FAILED", lineNumber, <<>>)

\* PluginManager.beforeParse(input)
RECURSIVE BeforeParseFrom(_, _, _)
BeforeParseFrom(list, text, calls) ==
  IF list = <<>> THEN [err |-> NoError, text |-> text, calls |-> calls]
  ELSE LET p == Head(list) IN
       IF "beforeParse" \notin p.has THEN BeforeParseFrom(Tail(list), text, calls)
       ELSE IF "beforeParse" \in p.throws
       THEN [err |-> createPluginError(p.name, "BEFORE_PARSE_FAILED", p.thrown),
             text |-> text, calls |-> Append(calls, Call(p, "beforeParse", 0))]
       ELSE BeforeParseFrom(Tail(list), PluginBeforeParse(p, text),
                            Append(calls, Call(p, "beforeParse", 0)))

\* PM_beforeParse running the parse-hook list from its last entry to its first
PM_beforeParse_Reversed(m, text) ==
  BeforeParseFrom([k \in 1..Len(m.parserPlugins) |->
                     m.parserPlugins[Len(m.parserPlugins) + 1 - k]], text, <<>>)

PM_beforeParse(m, text) == BeforeParseFrom(m.parserPlugins, text, <<>>)

\* PluginManager.afterParse(data); the plugins of the model return the
\* document they are given
RECURSIVE AfterParseFrom(_, _)
AfterParseFrom(list, calls) ==
  IF list = <<>> THEN [err |-> NoError, calls |-> calls]
  ELSE LET p == Head(list) IN
       IF "afterParse" \notin p.has THEN AfterParseFrom(Tail(list), calls)
       ELSE IF "afterParse" \in p.throws
       THEN [err |-> createPluginError(p.name, "AFTER_PARSE_FAILED", p.thrown),
             calls |-> Append(calls, Call(p, "afterParse", 0))]
       ELSE AfterParseFrom(Tail(list), Append(calls, Call(p, "afterParse", 0)))

PM_afterParse(m) == AfterParseFrom(m.parserPlugins, <<>>)

\* validateParsedData(data, pluginManager)
validateParsedData(data, m) ==
  LET noAuthor == ~Truthy(Get(data, <<"A", "u", "t", "h", "o", "r">>))
                  /\ ~Truthy(Get(data, <<"a", "u", "t", "h", "o", "r">>))
      duplicates == \E k1, k2 \in DOMAIN data : k1 # k2 /\ ToLowerStr(k1) = ToLowerStr(k2)
      warnings == (IF noAuthor THEN <<"Warning: No author name specified">> ELSE <<>>)
                  \o (IF duplicates
                      THEN <<"Warning: Potential duplicate keys (case-insensitive)">>
                      ELSE <<>>)
      r == PM_validateData(m)
  IN IF ~m.present THEN [err |-> NoError, value |-> Warnings(warnings), calls |-> <<>>]
     ELSE IF r.err # NoError THEN r
     ELSE [err |-> NoError, value |-> Warnings(warnings \o r.value.list), calls |-> r.calls]

(***************************************************************************)
(* The plugins and the registries of the model                             *)
(***************************************************************************)

TagU == <<"u">>
TagC == <<"c">>

\* a type-handler for the tag "u", shaped like the built-in UrlTypePlugin
UrlTypePlugin ==
  [name |-> "url-type", id |-> 1,
   has |-> {"supportedTypes", "processValue", "validateValue"},
   supportedTypes |-> <<TagU>>, supportedFormats |-> <<>>,
   throws |-> {}, thrown |-> ThrownValue, kvOp |-> "none", textOp |-> "none"]

\* a parse-hook plugin that observes blocks and key/value statements and
\* returns "no change" from onKeyValue
ObserverPlugin ==
  [name |-> "observer", id |-> 2,
   has |-> {"onBlockStart", "onBlockEnd", "onKeyValue", "afterParse"},
   supportedTypes |-> <<>>, supportedFormats |-> <<>>,
   throws |-> {}, thrown |-> ThrownValue, kvOp |-> "none", textOp |-> "none"]

\* manager.register(new UrlTypePlugin()); manager.register(observer)
ObservedManager ==
  register(register(EmptyManager, UrlTypePlugin, DefaultOptions).manager,
           ObserverPlugin, DefaultOptions).manager

Managers == {NoManager, ObservedManager}

(***************************************************************************)
(* State of one parseAuthorDSL(input, pluginManager) call                  *)
(***************************************************************************)

VARIABLES
  input,            \* the text given to parseAuthorDSL
  pm,               \* the pluginManager argument (present = FALSE: omitted)
  pc,               \* "start", "parsing", "done" (returned) or "failed" (threw)
  lines,            \* processedInput.split(/\r?\n/)
  i,                \* the loop index, 0-based: lines[i + 1] is the next line
  heap,             \* the frame objects, heap[1] being the root {}
  stack,            \* indices of the open frames, innermost last
  blockNames,       \* names of the open blocks, innermost last
  inMultiline,
  multilineKey,     \* Null or Some(key)
  multilineBuffer,
  result,           \* Null or Some(index of the returned document)
  err,              \* the error thrown, NoError if none
  calls,            \* log of the plugin methods invoked, in order
  history,          \* the register/unregister/clear calls made on pm, in order
  returned,         \* what the last call of a PluginManager method returned
  previous          \* Null, or the outcome of an earlier parseAuthorDSL call
                    \* made with the same input and the same manager

vars == <<input, pm, pc, lines, i, heap, stack, blockNames, inMultiline,
          multilineKey, multilineBuffer, result, err, calls, history, returned,
          previous>>

\* the variables no step of a parse changes: those of the calls made on a
\* PluginManager itself and the outcome of the earlier parse
registryVars == <<history, returned, previous>>

\* longest input, in lines
MaxLines == 4

TextsOver(alphabet) ==
  {Join(ls, "\n") : ls \in UNION {[1..n -> alphabet] : n \in 0..MaxLines}}

\* a call parseAuthorDSL(input, pm) about to be made
InitFor(alphabet, managers) ==
  /\ input \in TextsOver(alphabet)
  /\ pm \in managers
  /\ pc = "start"
  /\ lines = <<>>
  /\ i = 0
  /\ heap = <<EmptyFrame>>
  /\ stack = <<1>>
  /\ blockNames = <<>>
  /\ inMultiline = FALSE
  /\ multilineKey = Null
  /\ multilineBuffer = <<>>
  /\ result = Null
  /\ err = NoError
  /\ calls = <<>>
  /\ history = <<>>
  /\ returned = Undefined
  /\ previous = Null

InitWith(alphabet) == InitFor(alphabet, Managers)

\* throw e
Throw(e) == pc' = "failed" /\ err' = e

lineNumber == i + 1
rawLine == lines[i + 1]
current == stack[Len(stack)]

\* validateInput, beforeParse, split and the initialisation of the locals
Start ==
  /\ pc = "start"
  /\ UNCHANGED registryVars
  /\ UNCHANGED <<input, pm, i, heap, stack, blockNames, inMultiline,
                 multilineKey, multilineBuffer, result>>
  /\ IF validateInput(input) # NoError
     THEN Throw(validateInput(input)) /\ UNCHANGED <<lines, calls>>
     ELSE IF ~pm.present
     THEN lines' = SplitLines(input) /\ pc' = "parsing" /\ UNCHANGED <<err, calls>>
     ELSE LET r == PM_beforeParse(pm, input) IN
          /\ calls' = calls \o r.calls
          /\ IF r.err # NoError
             THEN Throw(r.err) /\ UNCHANGED lines
             ELSE lines' = SplitLines(r.text) /\ pc' = "parsing" /\ UNCHANGED err

AtLine == pc = "parsing" /\ i < Len(lines)

\* loop body, inMultiline branch
MultilineLine ==
  /\ AtLine /\ inMultiline
  /\ UNCHANGED registryVars
  /\ LET r == handleMultilineContent(rawLine, multilineBuffer) IN
     IF r.closed
     THEN /\ heap' = [heap EXCEPT ![current] =
                        assignValue(heap[current], multilineKey[1],
                                    Str(Trim(Join(r.buffer, "\n"))))]
          /\ inMultiline' = FALSE
          /\ multilineKey' = Null
          /\ multilineBuffer' = <<>>
     ELSE /\ multilineBuffer' = r.buffer
          /\ UNCHANGED <<heap, inMultiline, multilineKey>>
  /\ i' = i + 1
  /\ UNCHANGED <<input, pm, pc, lines, stack, blockNames, result, err, calls>>

IsSkipped(line) == Trim(line) = <<>> \/ StartsWith(Trim(line), <<"#">>)

\* loop body, blank line or comment
SkipLine ==
  /\ AtLine /\ ~inMultiline /\ IsSkipped(rawLine)
  /\ UNCHANGED registryVars
  /\ i' = i + 1
  /\ UNCHANGED <<input, pm, pc, lines, heap, stack, blockNames, inMultiline,
                 multilineKey, multilineBuffer, result, err, calls>>

\* loop body, Begin branch
BeginLine ==
  /\ AtLine /\ ~inMultiline /\ ~IsSkipped(rawLine) /\ TestBegin(Trim(rawLine))
  /\ UNCHANGED registryVars
  /\ LET hook == IF pm.present THEN PM_onBlockStart(pm, lineNumber)
                 ELSE [err |-> NoError, calls |-> <<>>]
         r == handleBlockStart(Trim(rawLine), lineNumber, heap, stack, blockNames)
     IN
     /\ calls' = calls \o hook.calls
     /\ IF hook.err # NoError
        THEN Throw(hook.err) /\ UNCHANGED <<i, heap, stack, blockNames>>
        ELSE IF r.err # NoError
        THEN Throw(r.err) /\ UNCHANGED <<i, heap, stack, blockNames>>
        ELSE /\ heap' = r.heap /\ stack' = r.stack /\ blockNames' = r.blockNames
             /\ i' = i + 1
             /\ UNCHANGED <<pc, err>>
  /\ UNCHANGED <<input, pm, lines, inMultiline, multilineKey, multilineBuffer, result>>

\* the End branch calling handleBlockEnd before the onBlockEnd hooks
EndLine_HandleFirst ==
  /\ AtLine /\ ~inMultiline /\ ~IsSkipped(rawLine)
  /\ ~TestBegin(Trim(rawLine)) /\ TestEnd(Trim(rawLine))
  /\ UNCHANGED registryVars
  /\ LET hook == IF pm.present THEN PM_onBlockEnd(pm, lineNumber)
                 ELSE [err |-> NoError, calls |-> <<>>]
         r == handleBlockEnd(Trim(rawLine), lineNumber, stack, blockNames)
     IN
     IF r.err # NoError
     THEN Throw(r.err) /\ blockNames' = r.blockNames /\ UNCHANGED <<i, stack, calls>>
     ELSE /\ calls' = calls \o hook.calls
          /\ stack' = r.stack /\ blockNames' = r.blockNames
          /\ IF hook.err # NoError
             THEN Throw(hook.err) /\ UNCHANGED i
             ELSE i' = i + 1 /\ UNCHANGED <<pc, err>>
  /\ UNCHANGED <<input, pm, lines, heap, inMultiline, multilineKey,
                 multilineBuffer, result>>

\* loop body, End branch
EndLine ==
  /\ AtLine /\ ~inMultiline /\ ~IsSkipped(rawLine)
  /\ ~TestBegin(Trim(rawLine)) /\ TestEnd(Trim(rawLine))
  /\ UNCHANGED registryVars
  /\ LET hook == IF pm.present THEN PM_onBlockEnd(pm, lineNumber)
                 ELSE [err |-> NoError, calls |-> <<>>]
         r == handleBlockEnd(Trim(rawLine), lineNumber, stack, blockNames)
     IN
     /\ calls' = calls \o hook.calls
     /\ IF hook.err # NoError
        THEN Throw(hook.err) /\ UNCHANGED <<i, stack, blockNames>>
        ELSE IF r.err # NoError
        THEN Throw(r.err) /\ blockNames' = r.blockNames /\ UNCHANGED <<i, stack>>
        ELSE /\ stack' = r.stack /\ blockNames' = r.blockNames
             /\ i' = i + 1
             /\ UNCHANGED <<pc, err>>
  /\ UNCHANGED <<input, pm, lines, heap, inMultiline, multilineKey,
                 multilineBuffer, result>>

\* loop body, key/value statement (including the opening of a multiline value)
KeyValueLine ==
  /\ AtLine /\ ~inMultiline /\ ~IsSkipped(rawLine)
  /\ ~TestBegin(Trim(rawLine)) /\ ~TestEnd(Trim(rawLine))
  /\ UNCHANGED registryVars
  /\ LET kv == parseKeyValue(Trim(rawLine), lineNumber)
         processedValue == processValue(kv.value)
         typed == IF pm.present /\ kv.type # Null
                  THEN PM_processValue(pm, kv.value, kv.type[1], lineNumber)
                  ELSE [err |-> NoError, value |-> processedValue, calls |-> <<>>]
         hooked == PM_onKeyValue(pm, kv.key, typed.value, lineNumber)
     IN
     IF kv.err # NoError
     THEN Throw(kv.err)
          /\ UNCHANGED <<i, heap, inMultiline, multilineKey, multilineBuffer, calls>>
     ELSE IF StartsWith(kv.value, TripleQuote)
     THEN /\ inMultiline' = TRUE
          /\ multilineKey' = Some(kv.key)
          /\ multilineBuffer' = IF SliceFrom(kv.value, 3) # <<>>
                                THEN <<SliceFrom(kv.value, 3)>> ELSE <<>>
          /\ i' = i + 1
          /\ UNCHANGED <<pc, err, heap, calls>>
     ELSE IF ~pm.present
     THEN /\ heap' = [heap EXCEPT ![current] =
                        assignValue(heap[current], kv.key,
                                    IF kv.type # Null
                                    THEN TypedPair(kv.type[1], processedValue)
                                    ELSE processedValue)]
          /\ i' = i + 1
          /\ UNCHANGED <<pc, err, inMultiline, multilineKey, multilineBuffer, calls>>
     ELSE IF typed.err # NoError
     THEN Throw(typed.err) /\ calls' = calls \o typed.calls
          /\ UNCHANGED <<i, heap, inMultiline, multilineKey, multilineBuffer>>
     ELSE IF hooked.err # NoError
     THEN Throw(hooked.err) /\ calls' = calls \o typed.calls \o hooked.calls
          /\ UNCHANGED <<i, heap, inMultiline, multilineKey, multilineBuffer>>
     ELSE /\ heap' = [heap EXCEPT ![current] =
                        assignValue(heap[current], hooked.key, hooked.value)]
          /\ calls' = calls \o typed.calls \o hooked.calls
          /\ i' = i + 1
          /\ UNCHANGED <<pc, err, inMultiline, multilineKey, multilineBuffer>>
  /\ UNCHANGED <<input, pm, lines, stack, blockNames, result>>

\* Finish calling afterParse before the end-of-input checks
Finish_AfterParseFirst ==
  /\ pc = "parsing" /\ i = Len(lines)
  /\ UNCHANGED registryVars
  /\ UNCHANGED <<input, pm, lines, i, heap, stack, blockNames, inMultiline,
                 multilineKey, multilineBuffer>>
  /\ LET r == IF pm.present THEN PM_afterParse(pm)
              ELSE [err |-> NoError, calls |-> <<>>] IN
     /\ calls' = calls \o r.calls
     /\ IF r.err # NoError
        THEN Throw(r.err) /\ UNCHANGED result
        ELSE IF Len(stack) # 1
        THEN Throw(DSLParseError("Unclosed block(s)", 0, Null, blockNames))
             /\ UNCHANGED result
        ELSE IF inMultiline
        THEN Throw(DSLParseError("Unclosed multiline value for key", 0, Null,
                                 <<multilineKey[1]>>))
             /\ UNCHANGED result
        ELSE pc' = "done" /\ result' = Some(stack[1]) /\ UNCHANGED err

\* after the loop: the end-of-input checks, afterParse and the return
Finish ==
  /\ pc = "parsing" /\ i = Len(lines)
  /\ UNCHANGED registryVars
  /\ UNCHANGED <<input, pm, lines, i, heap, stack, blockNames, inMultiline,
                 multilineKey, multilineBuffer>>
  /\ IF Len(stack) # 1
     THEN Throw(DSLParseError("Unclosed block(s)", 0, Null, blockNames))
          /\ UNCHANGED <<result, calls>>
     ELSE IF inMultiline
     THEN Throw(DSLParseError("Unclosed multiline value for key", 0, Null,
                              <<multilineKey[1]>>))
          /\ UNCHANGED <<result, calls>>
     ELSE IF ~pm.present
     THEN pc' = "done" /\ result' = Some(stack[1]) /\ UNCHANGED <<err, calls>>
     ELSE LET r == PM_afterParse(pm) IN
          /\ calls' = calls \o r.calls
          /\ IF r.err # NoError
             THEN Throw(r.err) /\ UNCHANGED result
             ELSE pc' = "done" /\ result' = Some(stack[1]) /\ UNCHANGED err

Next ==
  \/ Start
  \/ MultilineLine
  \/ SkipLine
  \/ BeginLine
  \/ EndLine
  \/ KeyValueLine
  \/ Finish

(***************************************************************************)
(* Inputs                                                                  *)
(***************************************************************************)

L_Comment == <<"#">>
L_BeginX  == <<"B", "e", "g", "i", "n", " ", "X">>
L_beginx  == <<" ", "b", "e", "g", "i", "n", " ", " ", "x">>
L_EndX    == <<"E", "n", "d", " ", "X">>
L_ENDx    == <<"E", "N", "D", " ", "x", " ">>
L_X2      == <<"X", ":", " ", "2">>
L_MOpen   == <<"M", ":", " ", "\"", "\"", "\"">>
L_MClose  == <<"\"", "\"", "\"">>

BlockLines ==
  {L_Comment, L_BeginX, L_beginx, L_EndX, L_ENDx, L_X2, L_MOpen, L_MClose}

Init == InitWith(BlockLines)

Spec == Init /\ [][Next]_vars

L_A1      == <<"A", ":", " ", "1">>
L_AEmpty  == <<"A", ":">>
L_AList   == <<"A", ":", " ", "a", ",", "b">>
L_AU      == <<"A", "@", "u", ":", " ", "1">>
L_AC      == <<"A", "@", "c", ":", " ", "\"", "a", ",", "b", "\"">>
L_BeginA  == <<"B", "E", "G", "I", "N", " ", "A">>
L_EndA    == <<"e", "n", "d", " ", "A">>
L_AOpen   == <<"A", ":", " ", "\"", "\"", "\"">>

ValueLines ==
  {L_Comment, L_A1, L_AEmpty, L_AList, L_AU, L_AC, L_BeginA, L_EndA, L_AOpen}

InitValues == InitWith(ValueLines)

SpecValues == InitValues /\ [][Next]_vars

(***************************************************************************)
(* Parses with parse-hook plugins that replace, observe and throw          *)
(***************************************************************************)

\* beforeParse upper-cases the text; onKeyValue returns the pair with the
\* value replaced
UpperHook ==
  [name |-> "upper", id |-> 3,
   has |-> {"beforeParse", "onKeyValue", "onBlockStart", "onBlockEnd"},
   supportedTypes |-> <<>>, supportedFormats |-> <<>>,
   throws |-> {}, thrown |-> ThrownValue, kvOp |-> "wrap", textOp |-> "upper"]

\* beforeParse appends a statement; onKeyValue returns the pair with the key
\* replaced
AppendHook ==
  [name |-> "append", id |-> 4,
   has |-> {"beforeParse", "onKeyValue", "afterParse"},
   supportedTypes |-> <<>>, supportedFormats |-> <<>>,
   throws |-> {}, thrown |-> ThrownValue, kvOp |-> "rename", textOp |-> "append"]

\* beforeParse puts a comment line first; onKeyValue returns "no change";
\* onBlockEnd throws
EndThrower ==
  [name |-> "end-thrower", id |-> 5,
   has |-> {"beforeParse", "onKeyValue", "onBlockStart", "onBlockEnd"},
   supportedTypes |-> <<>>, supportedFormats |-> <<>>,
   throws |-> {"onBlockEnd"}, thrown |-> ErrorObject("boom"),
   kvOp |-> "none", textOp |-> "comment"]

\* onBlockStart and onKeyValue throw
StartThrower ==
  [name |-> "start-thrower", id |-> 6,
   has |-> {"onKeyValue", "onBlockStart"},
   supportedTypes |-> <<>>, supportedFormats |-> <<>>,
   throws |-> {"onKeyValue", "onBlockStart"}, thrown |-> ErrorObject("boom"),
   kvOp |-> "none", textOp |-> "none"]

HookPlugins == {UpperHook, AppendHook, EndThrower, StartThrower}

\* the priorities plugins are registered with
Priorities == {0, 1}

\* manager.register(p1); manager.register(p2, { priority })
HookManagers ==
  {register(register(EmptyManager, p1, DefaultOptions).manager, p2,
            [enabled |-> TRUE, priority |-> priority]).manager :
     p1 \in HookPlugins, p2 \in HookPlugins, priority \in Priorities}

L_ab == <<"a", ":", " ", "b">>

HookLines == {L_ab, L_BeginX, L_EndX, L_MOpen, L_MClose}

InitHooks == InitFor(HookLines, HookManagers)

SpecHooks == InitHooks /\ [][Next]_vars

(***************************************************************************)
(* Two parseAuthorDSL calls with the same input and the same manager       *)
(*                                                                         *)
(* The heap is the one heap of the program: the second call allocates its  *)
(* root frame after the frames of the first, whose outcome is kept in      *)
(* previous.                                                               *)
(***************************************************************************)

\* what a finished call leaves behind
Outcome ==
  [pc |-> pc, err |-> err, result |-> result, heap |-> heap, calls |-> calls,
   pm |-> pm]

\* a second call whose stack starts at the root frame of the first call
ParseAgain_SharedRoot ==
  /\ pc \in {"done", "failed"} /\ previous = Null
  /\ previous' = Some(Outcome)
  /\ pc' = "start"
  /\ lines' = <<>>
  /\ i' = 0
  /\ heap' = heap
  /\ stack' = <<stack[1]>>
  /\ blockNames' = <<>>
  /\ inMultiline' = FALSE
  /\ multilineKey' = Null
  /\ multilineBuffer' = <<>>
  /\ result' = Null
  /\ err' = NoError
  /\ calls' = <<>>
  /\ UNCHANGED <<input, pm, history, returned>>

\* parseAuthorDSL(input, pluginManager) called again after the first call
\* returned or threw: const stack = [{}], blockNames = [], inMultiline = false,
\* multilineKey = null, multilineBuffer = []
ParseAgain ==
  /\ pc \in {"done", "failed"} /\ previous = Null
  /\ previous' = Some(Outcome)
  /\ pc' = "start"
  /\ lines' = <<>>
  /\ i' = 0
  /\ heap' = Append(heap, EmptyFrame)
  /\ stack' = <<Len(heap) + 1>>
  /\ blockNames' = <<>>
  /\ inMultiline' = FALSE
  /\ multilineKey' = Null
  /\ multilineBuffer' = <<>>
  /\ result' = Null
  /\ err' = NoError
  /\ calls' = <<>>
  /\ UNCHANGED <<input, pm, history, returned>>

NextTwice ==
  \/ Next
  \/ ParseAgain

SpecTwice == InitHooks /\ [][NextTwice]_vars

(***************************************************************************)
(* The same input parsed with a manager that has no plugins and then       *)
(* without a manager                                                       *)
(***************************************************************************)

InitEmpty == InitFor(ValueLines, {EmptyManager})

\* parseAuthorDSL(input) called after parseAuthorDSL(input, new PluginManager())
\* returned or threw
ParseWithout ==
  /\ pc \in {"done", "failed"} /\ previous = Null
  /\ previous' = Some(Outcome)
  /\ pm' = NoManager
  /\ pc' = "start"
  /\ lines' = <<>>
  /\ i' = 0
  /\ heap' = Append(heap, EmptyFrame)
  /\ stack' = <<Len(heap) + 1>>
  /\ blockNames' = <<>>
  /\ inMultiline' = FALSE
  /\ multilineKey' = Null
  /\ multilineBuffer' = <<>>
  /\ result' = Null
  /\ err' = NoError
  /\ calls' = <<>>
  /\ UNCHANGED <<input, history, returned>>

NextEmpty ==
  \/ Next
  \/ ParseWithout

SpecEmpty == InitEmpty /\ [][NextEmpty]_vars

(***************************************************************************)
(* Parses with a type handler, observing hooks and an afterParse hook that *)
(* throws                                                                  *)
(***************************************************************************)

\* beforeParse returns the text as it is; afterParse throws
AfterThrower ==
  [name |-> "after-thrower", id |-> 7,
   has |-> {"beforeParse", "afterParse"},
   supportedTypes |-> <<>>, supportedFormats |-> <<>>,
   throws |-> {"afterParse"}, thrown |-> ErrorObject("boom"),
   kvOp |-> "none", textOp |-> "none"]

OrderPlugins == {ObserverPlugin, AppendHook, AfterThrower}

\* manager.register(new UrlTypePlugin()); manager.register(p1); manager.register(p2)
OrderManagers ==
  UNION {{register(register(register(EmptyManager, UrlTypePlugin,
                                     DefaultOptions).manager,
                            p1, DefaultOptions).manager,
                   p2, DefaultOptions).manager : p2 \in OrderPlugins \ {p1}} :
           p1 \in OrderPlugins}

OrderLines == {L_Comment, L_AU, L_BeginA, L_EndA, L_AOpen}

InitOrder == InitFor(OrderLines, OrderManagers)

SpecOrder == InitOrder /\ [][Next]_vars

(***************************************************************************)
(* Calls made on a PluginManager itself                                    *)
(*                                                                         *)
(* pm is the manager the calls are made on, history the calls that change  *)
(* the registry, calls the plugin methods the last call invoked, err what  *)
(* it threw and returned what it returned.                                 *)
(***************************************************************************)

TagE == <<"e">>
TagZ == <<"z">>

\* every member a plugin object of the model can have
AllMembers ==
  {"initialize", "destroy", "validate", "supportedTypes", "processValue",
   "validateValue", "format", "supportedFormats", "beforeParse", "afterParse",
   "onKeyValue", "onBlockStart", "onBlockEnd"}

\* a plugin in all four roles, handling the types u and c and the formats
\* yaml and json
PlugA ==
  [name |-> "a", id |-> 11, has |-> AllMembers,
   supportedTypes |-> <<TagU, TagC>>, supportedFormats |-> <<"yaml", "json">>,
   throws |-> {}, thrown |-> ThrownValue, kvOp |-> "wrap", textOp |-> "upper"]

\* a plugin in all four roles, handling the type u and the format yaml
PlugB ==
  [name |-> "b", id |-> 12, has |-> AllMembers,
   supportedTypes |-> <<TagU>>, supportedFormats |-> <<"yaml">>,
   throws |-> {}, thrown |-> ThrownValue, kvOp |-> "rename", textOp |-> "append"]

\* a plugin in all four roles every method of which throws new Error("boom")
PlugT ==
  [name |-> "t", id |-> 13, has |-> AllMembers,
   supportedTypes |-> <<TagE>>, supportedFormats |-> <<"xml">>,
   throws |-> AllMembers, thrown |-> ErrorObject("boom"),
   kvOp |-> "none", textOp |-> "none"]

\* another plugin object named "a": a type handler for c whose processValue
\* throws the string "boom"
TwinA ==
  [name |-> "a", id |-> 14, has |-> {"supportedTypes", "processValue"},
   supportedTypes |-> <<TagC>>, supportedFormats |-> <<>>,
   throws |-> {"processValue"}, thrown |-> ThrownString("boom"),
   kvOp |-> "none", textOp |-> "none"]

RegistryPlugins == {PlugA, PlugB, PlugT, TwinA}

PluginNames == {p.name : p \in RegistryPlugins}

\* the register calls made: a at the default priority, b at either priority
\* (before a, after a, level with a), the thrower at the default, and the
\* second object named "a" at the priority that differs from the one a has
Registrations ==
  {<<PlugA, 0>>, <<PlugB, 0>>, <<PlugB, 1>>, <<PlugT, 0>>, <<TwinA, 1>>}

TypeTags == {TagU, TagC, TagE, TagZ}

FormatTags == {"yaml", "json", "xml", "csv"}

AuthorKey == <<"A", "u", "t", "h", "o", "r">>

\* the documents given to validateParsedData
Documents ==
  {EmptyFrame,
   Put(EmptyFrame, AuthorKey, Str(<<"x">>)),
   Put(Put(EmptyFrame, <<"X">>, Str(<<"1">>)), <<"x">>, Str(<<"2">>))}

\* most register, unregister and clear calls made on one manager
MaxCalls == 3

parseVars ==
  <<input, pc, lines, i, heap, stack, blockNames, inMultiline, multilineKey,
    multilineBuffer, result, previous>>

\* const manager = new PluginManager()
InitRegistry ==
  /\ pm = EmptyManager
  /\ pc = "registry"
  /\ input = <<>>
  /\ lines = <<>>
  /\ i = 0
  /\ heap = <<EmptyFrame>>
  /\ stack = <<1>>
  /\ blockNames = <<>>
  /\ inMultiline = FALSE
  /\ multilineKey = Null
  /\ multilineBuffer = <<>>
  /\ result = Null
  /\ err = NoError
  /\ calls = <<>>
  /\ history = <<>>
  /\ returned = Undefined
  /\ previous = Null

\* manager.register(p, { priority })
Register(p, priority) ==
  /\ Len(history) < MaxCalls
  /\ LET r == register(pm, p, [enabled |-> TRUE, priority |-> priority]) IN
     /\ pm' = r.manager
     /\ err' = r.err
  /\ calls' = IF "initialize" \in p.has THEN <<Call(p, "initialize", 0)>> ELSE <<>>
  /\ history' = Append(history, [op |-> "register", name |-> p.name, id |-> p.id,
                                 priority |-> priority])
  /\ returned' = Undefined
  /\ UNCHANGED parseVars

RegisterCall ==
  \E reg \in Registrations :
    /\ pc = "registry"
    /\ Register(reg[1], reg[2])

\* manager.unregister(pluginName)
Unregister(pluginName) ==
  /\ Len(history) < MaxCalls
  /\ pm' = unregister(pm, pluginName).manager
  /\ calls' = unregister(pm, pluginName).calls
  /\ err' = NoError
  /\ history' = Append(history, [op |-> "unregister", name |-> pluginName, id |-> 0,
                                 priority |-> 0])
  /\ returned' = Undefined
  /\ UNCHANGED parseVars

UnregisterCall ==
  \E pluginName \in PluginNames :
    /\ pc = "registry"
    /\ Unregister(pluginName)

\* manager.clear()
ClearCall ==
  /\ pc = "registry" /\ Len(history) < MaxCalls
  /\ pm' = clear(pm).manager
  /\ calls' = clear(pm).calls
  /\ err' = NoError
  /\ history' = Append(history, [op |-> "clear", name |-> "", id |-> 0, priority |-> 0])
  /\ returned' = Undefined
  /\ UNCHANGED parseVars

\* a call that leaves the registry as it is: r is what it did
Query(r) ==
  /\ calls' = r.calls
  /\ err' = r.err
  /\ returned' = r.value
  /\ UNCHANGED <<pm, history>>
  /\ UNCHANGED parseVars

\* manager.processValue("v", type, context)
ProcessValue(type) == Query(PM_processValue(pm, <<"v">>, type, 0))

ProcessValueCall ==
  \E type \in TypeTags :
    /\ pc = "registry"
    /\ ProcessValue(type)

\* manager.validateValue(value, type, context)
ValidateValue(type) == Query(PM_validateValue(pm, type))

ValidateValueCall ==
  \E type \in TypeTags :
    /\ pc = "registry"
    /\ ValidateValue(type)

\* manager.validateData(data)
ValidateDataCall ==
  /\ pc = "registry"
  /\ Query(PM_validateData(pm))

\* validateParsedData(data, manager)
ValidateParsedData(data) == Query(validateParsedData(data, pm))

ValidateParsedDataCall ==
  \E data \in Documents :
    /\ pc = "registry"
    /\ ValidateParsedData(data)

\* manager.formatData(data, format)
FormatData(format) == Query(PM_formatData(pm, format))

FormatDataCall ==
  \E format \in FormatTags :
    /\ pc = "registry"
    /\ FormatData(format)

\* manager.beforeParse("a: b")
BeforeParseCall ==
  /\ pc = "registry"
  /\ Query([err |-> PM_beforeParse(pm, L_ab).err,
            value |-> IF PM_beforeParse(pm, L_ab).err = NoError
                      THEN Str(PM_beforeParse(pm, L_ab).text) ELSE Undefined,
            calls |-> PM_beforeParse(pm, L_ab).calls])

\* manager.afterParse(data)
AfterParseCall ==
  /\ pc = "registry"
  /\ Query([err |-> PM_afterParse(pm).err,
            value |-> IF PM_afterParse(pm).err = NoError THEN Document ELSE Undefined,
            calls |-> PM_afterParse(pm).calls])

\* manager.onKeyValue("a", "b", context)
OnKeyValueCall ==
  /\ pc = "registry"
  /\ LET r == PM_onKeyValue(pm, <<"a">>, Str(<<"b">>), 0) IN
     Query([err |-> r.err,
            value |-> IF r.err = NoError THEN KeyValue(r.key, r.value) ELSE Undefined,
            calls |-> r.calls])

\* manager.onBlockStart(blockName, context)
OnBlockStartCall ==
  /\ pc = "registry"
  /\ Query([err |-> PM_onBlockStart(pm, 0).err, value |-> Undefined,
            calls |-> PM_onBlockStart(pm, 0).calls])

\* manager.onBlockEnd(blockName, context)
OnBlockEndCall ==
  /\ pc = "registry"
  /\ Query([err |-> PM_onBlockEnd(pm, 0).err, value |-> Undefined,
            calls |-> PM_onBlockEnd(pm, 0).calls])

NextRegistry ==
  \/ RegisterCall
  \/ UnregisterCall
  \/ ClearCall
  \/ ProcessValueCall
  \/ ValidateValueCall
  \/ ValidateDataCall
  \/ ValidateParsedDataCall
  \/ FormatDataCall
  \/ BeforeParseCall
  \/ AfterParseCall
  \/ OnKeyValueCall
  \/ OnBlockStartCall
  \/ OnBlockEndCall

SpecRegistry == InitRegistry /\ [][NextRegistry]_vars

(***************************************************************************)
(* Calls made on a manager whose plugins are registered with               *)
(* { enabled: false }                                                      *)
(***************************************************************************)

\* manager.register(p, { enabled: false })
RegisterDisabled(p) ==
  /\ Len(history) < MaxCalls
  /\ LET r == register(pm, p, [enabled |-> FALSE, priority |-> 0]) IN
     /\ pm' = r.manager
     /\ err' = r.err
  /\ calls' = IF "initialize" \in p.has THEN <<Call(p, "initialize", 0)>> ELSE <<>>
  /\ history' = Append(history, [op |-> "register", name |-> p.name, id |-> p.id,
                                 priority |-> 0])
  /\ returned' = Undefined
  /\ UNCHANGED parseVars

RegisterDisabledCall ==
  \E p \in {PlugA, PlugB} :
    /\ pc = "registry"
    /\ RegisterDisabled(p)

NextDisabled ==
  \/ RegisterDisabledCall
  \/ UnregisterCall
  \/ ProcessValueCall
  \/ ValidateDataCall
  \/ FormatDataCall
  \/ BeforeParseCall
  \/ AfterParseCall
  \/ OnKeyValueCall
  \/ OnBlockStartCall
  \/ OnBlockEndCall

SpecDisabled == InitRegistry /\ [][NextDisabled]_vars

(***************************************************************************)
(* Inputs for the syntax of key/value statements                           *)
(***************************************************************************)

L_NoColon == <<" ", "K">>
L_NoKey   == <<":", "v">>
L_AtT     == <<"@", "t", ":", "v">>
L_TwoAt   == <<"a", "@", "b", "@", "c", ":", "v">>
L_NoType  == <<"a", "@", " ", ":", "v">>
L_KT      == <<" ", "k", " ", "@", " ", "t", " ", ":", "v">>

SyntaxLines ==
  {L_Comment, L_BeginX, L_EndX, L_MOpen, L_NoColon, L_NoKey, L_AtT, L_TwoAt,
   L_NoType, L_KT, L_AEmpty}

InitSyntax == InitWith(SyntaxLines)

SpecSyntax == InitSyntax /\ [][Next]_vars

(***************************************************************************)
(* Inputs for multiline values                                             *)
(***************************************************************************)

L_KOpenA == <<"K", ":", " ", "\"", "\"", "\"", "a", " ">>
L_Mid    == <<" ", "b", " ">>
L_CloseC == <<" ", "c", "\"", "\"", "\"", " ">>
L_Blank  == <<>>

MultilineLines ==
  {L_KOpenA, L_MOpen, L_Mid, L_CloseC, L_MClose, L_Blank, L_BeginX, L_EndX}

InitMultiline == InitWith(MultilineLines)

SpecMultiline == InitMultiline /\ [][Next]_vars

(***************************************************************************)
(* The value processor applied to the value of one statement               *)
(*                                                                         *)
(* input is the text after the colon of an untyped statement parsed        *)
(* without plugin manager, returned what processValue yields for it.       *)
(***************************************************************************)

ValueChars == {"a", ",", " ", "\""}

\* longest value text, in characters
MaxValueLen == 5

ValueTexts == UNION {[1..n -> ValueChars] : n \in 0..MaxValueLen}

\* the statement K: <text>
StatementOf(text) == <<"K", ":", " ">> \o text

InitProcessor ==
  /\ input \in ValueTexts
  /\ pm = NoManager
  /\ pc = "value"
  /\ lines = <<>>
  /\ i = 0
  /\ heap = <<EmptyFrame>>
  /\ stack = <<1>>
  /\ blockNames = <<>>
  /\ inMultiline = FALSE
  /\ multilineKey = Null
  /\ multilineBuffer = <<>>
  /\ result = Null
  /\ err = NoError
  /\ calls = <<>>
  /\ history = <<>>
  /\ returned = Undefined
  /\ previous = Null

\* const { key, value, type } = parseKeyValue(line, lineNumber);
\* let processedValue = processValue(value)
ProcessStatementValue ==
  /\ pc = "value"
  /\ pc' = "valued"
  /\ returned' = processValue(parseKeyValue(StatementOf(input), 1).value)
  /\ UNCHANGED <<input, pm, lines, i, heap, stack, blockNames, inMultiline,
                 multilineKey, multilineBuffer, result, err, calls, history,
                 previous>>

NextProcessor == ProcessStatementValue

SpecProcessor == InitProcessor /\ [][NextProcessor]_vars

(***************************************************************************)
(* Vocabulary of the properties                                            *)
(***************************************************************************)

Finished == pc \in {"done", "failed"}

SeqElems(q) == {q[k] : k \in 1..Len(q)}

\* the line loop has consumed every line (the input has ended)
AtEndOfInput == pc # "start" /\ i = Len(lines)

\* the key under which frame `child` is listed in frame `parent`
NameInParent(parent, child) ==
  CHOOSE key \in DOMAIN heap[parent] :
    heap[parent][key].t = "arr" /\ Ref(child) \in SeqElems(heap[parent][key].a)

\* names of the open blocks read off the document: for every open frame but
\* the root, the key of its enclosing frame it was appended under
OpenNames == [k \in 1..(Len(stack) - 1) |-> NameInParent(stack[k], stack[k + 1])]

\* the line at hand is an End line handled in Normal state
AtEndLine ==
  /\ AtLine /\ ~inMultiline /\ ~IsSkipped(rawLine)
  /\ ~TestBegin(Trim(rawLine)) /\ TestEnd(Trim(rawLine))

\* Begin/End lines of ls are properly nested with equal names, given the
\* names already open; every other line is a comment or a key/value
\* statement that parses and does not open a multiline value
RECURSIVE WellNested(_, _)
WellNested(ls, open) ==
  IF ls = <<>> THEN open = <<>>
  ELSE LET line == Trim(Head(ls)) IN
       IF IsSkipped(line) THEN WellNested(Tail(ls), open)
       ELSE IF TestBegin(line) THEN WellNested(Tail(ls), Append(open, BeginName(line)))
       ELSE IF TestEnd(line)
       THEN /\ open # <<>>
            /\ open[Len(open)] = EndName(line)
            /\ WellNested(Tail(ls), SubSeq(open, 1, Len(open) - 1))
       ELSE /\ parseKeyValue(line, 0).err = NoError
            /\ ~StartsWith(parseKeyValue(line, 0).value, TripleQuote)
            /\ WellNested(Tail(ls), open)

(***************************************************************************)
(* Properties                                                              *)
(***************************************************************************)

\* C1: every parse of a non-empty input whose Begin lines all have a matching
\* End line of the same name in correct nesting order, all other lines being
\* comments or well-formed key/value lines, succeeds with a frame stack of
\* depth 1.
C1_WellNestedSucceeds ==
  (Finished /\ err.code # "Input cannot be empty" /\ WellNested(lines, <<>>))
    => (pc = "done" /\ Len(stack) = 1)

\* C2: an End line whose name differs (case-sensitively) from the innermost
\* open block makes the parse fail at that line with a mismatch error naming
\* the block actually open; with no block open it fails at that line with the
\* "no open blocks" error.
C2_MismatchedEnd ==
  [][(AtEndLine /\ (blockNames = <<>> \/ OpenNames[Len(OpenNames)] # EndName(Trim(rawLine))))
       => /\ pc' = "failed"
          /\ err'.kind = "DSLParseError"
          /\ err'.lineNumber = i + 1
          /\ IF Len(stack) = 1
             THEN err'.code = "No open blocks to close"
             ELSE /\ err'.code = "Mismatched End"
                  /\ err'.info = <<OpenNames[Len(OpenNames)], EndName(Trim(rawLine))>>]_vars

\* C2 witness: END x met while the innermost open block is X
C2_Witness ==
  /\ pc = "failed" /\ err.code = "Mismatched End"
  /\ err.info = <<<<"X">>, <<"x">>>>
  /\ err.lineNumber = 3

\* C3 as stated: the name stack and the frame stack have equal depth >= 1
\* during a parse.
C3_EqualDepth ==
  pc = "parsing" => (Len(blockNames) = Len(stack) /\ Len(stack) >= 1)

\* C3 amended: the frame stack is exactly one deeper than the name stack (the
\* root frame has no name), hence of depth >= 1, in every state of a parse
\* except the aborting state of a mismatched End, where the name has been
\* popped and the frame has not.
C3_DepthOffset ==
  err.code # "Mismatched End" => (Len(stack) = Len(blockNames) + 1 /\ Len(stack) >= 1)

\* C3 witness: two blocks open, one of them closed again later
C3_Witness == pc = "parsing" /\ Len(stack) = 2 /\ Len(heap) = 3 /\ blockNames = <<<<"X">>>>

\* C4: when the input ends with blocks still open, the parse fails with the
\* unclosed-block error listing the open names outermost first, and returns
\* no document.
C4_UnclosedBlocks ==
  (Finished /\ AtEndOfInput /\ Len(stack) > 1)
    => /\ pc = "failed"
       /\ err.kind = "DSLParseError"
       /\ err.code = "Unclosed block(s)"
       /\ err.info = OpenNames
       /\ result = Null

\* C4 witness: x left open inside X
C4_Witness ==
  /\ pc = "failed" /\ err.code = "Unclosed block(s)"
  /\ err.info = <<<<"X">>, <<"x">>>>

\* C5: when the input ends inside a multiline value, the parse fails with the
\* error naming the pending key, also when a block is still open.
C5_UnclosedMultiline ==
  (Finished /\ AtEndOfInput /\ inMultiline)
    => /\ pc = "failed"
       /\ err.code = "Unclosed multiline value for key"
       /\ err.info = <<multilineKey[1]>>

\* C6: in InMultiline state a line that is not the closing line is only
\* appended to the buffer: frames, names, document and parse state stay as
\* they are and no plugin hook is invoked.
C6_MultilineSuspends ==
  [][(AtLine /\ inMultiline /\ ~EndsWith(Trim(rawLine), TripleQuote))
       => /\ multilineBuffer' = Append(multilineBuffer, rawLine)
          /\ UNCHANGED <<heap, stack, blockNames, inMultiline, multilineKey, calls, pc, err>>
          /\ i' = i + 1]_vars

\* C6 witness: a Begin line and a key/value line were buffered while a
\* manager with block and key/value hooks is in use
C6_Witness ==
  /\ inMultiline /\ pm.present
  /\ multilineBuffer = <<L_beginx, L_X2>>

\* C9: a key under which blocks were opened holds a list of block documents
\* only, in order of appearance.
C9_BlockList ==
  pc = "done" =>
    \A f \in 1..Len(heap) : \A key \in DOMAIN heap[f] :
      (heap[f][key].t = "arr" /\ \E g \in 1..Len(heap) : Ref(g) \in SeqElems(heap[f][key].a))
        => /\ \A k \in 1..Len(heap[f][key].a) : heap[f][key].a[k].t = "ref"
           /\ \A k, l \in 1..Len(heap[f][key].a) :
                k < l => heap[f][key].a[k].id < heap[f][key].a[l].id

\* the key, type and value a key/value line carries
KeyOfLine(line) == parseKeyValue(Trim(line), 0).key
TypeOfLine(line) == parseKeyValue(Trim(line), 0).type
RawValueOfLine(line) == parseKeyValue(Trim(line), 0).value

\* the {type, value} pair or plain value a statement carries by itself
CarriedValue(line) ==
  IF TypeOfLine(line) # Null
  THEN TypedPair(TypeOfLine(line)[1], processValue(RawValueOfLine(line)))
  ELSE processValue(RawValueOfLine(line))

\* the key-collision rule: one occurrence stores the value, n >= 2
\* occurrences store the list of the n values in order
Collided(values) == IF Len(values) = 1 THEN values[1] ELSE Arr(values)

Statements(ls) == SelectSeq(ls, LAMBDA l : ~IsSkipped(l))

OnlyLines(allowed) == SeqElems(lines) \subseteq allowed \cup {L_Comment}

\* C7: a key that appears n times as a scalar statement in one scope holds
\* the value itself for n = 1 and the list of the n values in order of
\* appearance for n >= 2, the empty string included.
C7_RepeatedScalarKey ==
  (pc = "done" /\ OnlyLines({L_A1, L_AEmpty}) /\ Statements(lines) # <<>>)
    => Get(heap[1], <<"A">>) =
         Collided([k \in 1..Len(Statements(lines)) |-> CarriedValue(Statements(lines)[k])])

\* C8: the key-collision rule is the same for every value shape: scalars,
\* comma lists and typed values alike are stored singly at the first
\* occurrence, as [first, second] at the second, and appended after that.
C8_CollisionAnyShape ==
  (pc = "done" /\ ~pm.present /\ OnlyLines({L_A1, L_AList, L_AC})
     /\ Statements(lines) # <<>>)
    => Get(heap[1], <<"A">>) =
         Collided([k \in 1..Len(Statements(lines)) |-> CarriedValue(Statements(lines)[k])])

\* C10: the value assigned for Key@T: v is the result of the handler
\* registered for T if there is one, and the pair {type: T, value: processed v}
\* otherwise, with and without a plugin manager.
C10_TypedValue ==
  (pc = "done" /\ Len(lines) = 1 /\ TypeOfLine(lines[1]) # Null)
    => Get(heap[1], KeyOfLine(lines[1])) =
         IF pm.present /\ TypeOfLine(lines[1])[1] \in DOMAIN pm.typePlugins
         THEN PluginValue(pm.typePlugins[TypeOfLine(lines[1])[1]].name,
                          TypeOfLine(lines[1])[1], RawValueOfLine(lines[1]))
         ELSE CarriedValue(lines[1])

(***************************************************************************)
(* Properties of the parse-hook pipeline                                   *)
(***************************************************************************)

\* the entries of the parse-hook list that implement the method `point`
HooksFor(point) == SelectSeq(pm.parserPlugins, LAMBDA p : point \in p.has)

\* how many entries of `list` are called: all of them, or those up to and
\* including the first whose method `point` throws
CalledOf(list, point) ==
  IF \E k \in 1..Len(list) : point \in list[k].throws
  THEN CHOOSE k \in 1..Len(list) :
         point \in list[k].throws /\ \A j \in 1..(k - 1) : point \notin list[j].throws
  ELSE Len(list)

NoneThrows(list, point) == \A k \in 1..Len(list) : point \notin list[k].throws

\* one call per entry, in the order of the list, ending at the first throw
ExpectedCalls(point, atLine) ==
  [k \in 1..CalledOf(HooksFor(point), point) |-> Call(HooksFor(point)[k], point, atLine)]

CallsAt(log, point, atLine) ==
  SelectSeq(log, LAMBDA c : c.point = point /\ c.lineNumber = atLine)

\* the pair left by a chain of onKeyValue plugins, each given its
\* predecessor's pair
RECURSIVE ChainPair(_, _)
ChainPair(list, pair) ==
  IF list = <<>> THEN pair
  ELSE LET r == PluginOnKeyValue(Head(list), pair.key, pair.value)
       IN ChainPair(Tail(list), IF r = Null THEN pair ELSE r[1])

\* the text left by a chain of beforeParse plugins
RECURSIVE ChainText(_, _)
ChainText(list, text) ==
  IF list = <<>> THEN text
  ELSE ChainText(Tail(list), PluginBeforeParse(Head(list), text))

\* the line at hand is a key/value statement that carries its value and is
\* handed to the plugin pipeline
AtPipelineLine ==
  /\ AtLine /\ ~inMultiline /\ ~IsSkipped(rawLine)
  /\ ~TestBegin(Trim(rawLine)) /\ ~TestEnd(Trim(rawLine))
  /\ parseKeyValue(Trim(rawLine), i + 1).err = NoError
  /\ ~StartsWith(RawValueOfLine(rawLine), TripleQuote)
  /\ pm.present

\* the pair the pipeline starts from at the line at hand
PairOfLine ==
  [key |-> KeyOfLine(rawLine),
   value |-> IF TypeOfLine(rawLine) = Null THEN processValue(RawValueOfLine(rawLine))
             ELSE PM_processValue(pm, RawValueOfLine(rawLine), TypeOfLine(rawLine)[1],
                                  i + 1).value]

AtBeginLine ==
  AtLine /\ ~inMultiline /\ ~IsSkipped(rawLine) /\ TestBegin(Trim(rawLine))

\* the line at hand closes the multiline value being read
AtClosingLine == AtLine /\ inMultiline /\ EndsWith(Trim(rawLine), TripleQuote)

C12_BeforeParseChain ==
  (pc # "start" /\ err.code # "Input cannot be empty")
    => /\ lines = SplitLines(ChainText(HooksFor("beforeParse"), input))
       /\ CallsAt(calls, "beforeParse", 0) = ExpectedCalls("beforeParse", 0)

\* C12 witness: P1 upper-cases, P2 appends a statement, equal priority
C12_Witness ==
  /\ pc = "done" /\ input = L_ab
  /\ pm.parserPlugins = <<UpperHook, AppendHook>>
  /\ PriorityOf(pm.plugins, "upper") = PriorityOf(pm.plugins, "append")
  /\ lines = <<<<"A", ":", " ", "B">>, L_ab>>

\* the plugin whose method `point` throws first in the parse-hook list
FirstThrower(point) == HooksFor(point)[CalledOf(HooksFor(point), point)]

\* what C13 says of one Begin or End line, `point` being its hook
BlockHooksFirst(point, code) ==
  /\ calls' = calls \o ExpectedCalls(point, i + 1)
  /\ ~NoneThrows(HooksFor(point), point) =>
       /\ pc' = "failed"
       /\ err'.kind = "PluginError" /\ err'.code = code
       /\ err'.plugin = FirstThrower(point).name
       /\ UNCHANGED <<heap, stack, blockNames>>

ClosedPair ==
  [key |-> multilineKey[1],
   value |-> Str(Trim(Join(handleMultilineContent(rawLine, multilineBuffer).buffer, "\n")))]

\* C14: when a multiline value is closed during a parse with a plugin
\* manager, the onKeyValue chain is called for the joined value and the pair
\* it leaves is what is stored.
C14_MultilineThroughPipeline ==
  [][(AtClosingLine /\ pm.present) =>
       /\ CallsAt(calls', "onKeyValue", i + 1) = ExpectedCalls("onKeyValue", i + 1)
       /\ NoneThrows(HooksFor("onKeyValue"), "onKeyValue") =>
            heap' = [heap EXCEPT ![current] =
                       assignValue(heap[current],
                                   ChainPair(HooksFor("onKeyValue"), ClosedPair).key,
                                   ChainPair(HooksFor("onKeyValue"), ClosedPair).value)]]_vars

(***************************************************************************)
(* Properties of the registry and of the calls made on it                  *)
(***************************************************************************)

\* the priority the registry holds for the name of plugin p
Prio(p) == PriorityOf(pm.plugins, p.name)

\* the register calls of the object p that no later unregister of its name
\* and no later clear has undone
LiveRegistrations(p) ==
  {h \in 1..Len(history) :
     /\ history[h].op = "register" /\ history[h].id = p.id
     /\ \A g \in (h + 1)..Len(history) :
          /\ history[g].op # "clear"
          /\ ~(history[g].op = "unregister" /\ history[g].name = p.name)}

\* priority descending, ties in registration order
Ordered(list) ==
  \A k, l \in 1..Len(list) :
    k < l =>
      /\ Prio(list[k]) >= Prio(list[l])
      /\ Prio(list[k]) = Prio(list[l]) =>
           \E hk \in LiveRegistrations(list[k]), hl \in LiveRegistrations(list[l]) : hk <= hl

RECURSIVE ConcatWarnings(_)
ConcatWarnings(list) ==
  IF list = <<>> THEN <<>> ELSE PluginValidate(Head(list)) \o ConcatWarnings(Tail(list))

\* C15: after any sequence of register and unregister calls the validator
\* list and the parse-hook list are ordered by priority descending with ties
\* in registration order, and validateData calls the validators and
\* concatenates their warnings in that order.
C15_ListsOrdered ==
  [][/\ Ordered(pm.validationPlugins)' /\ Ordered(pm.parserPlugins)'
     /\ (ValidateDataCall /\ err' = NoError) =>
          /\ calls' = [k \in 1..Len(pm.validationPlugins) |->
                         Call(pm.validationPlugins[k], "validate", 0)]
          /\ returned' = Warnings(ConcatWarnings(pm.validationPlugins))]_vars

\* the last call that changed the registry
LastChange == history[Len(history)]

\* every plugin object held by one of the four categories
Categorised(m) ==
  {m.typePlugins[type] : type \in DOMAIN m.typePlugins}
    \cup SeqElems(m.validationPlugins) \cup SeqElems(m.formatterPlugins)
    \cup SeqElems(m.parserPlugins)

\* C16: after unregister(name), whatever was registered before, no plugin of
\* that name is left in the type-handler map or in the validator, formatter
\* or parse-hook list, and no later call invokes one.
C16_UnregisterRemoves ==
  (history # <<>> /\ LastChange.op = "unregister")
    => /\ \A p \in Categorised(pm) : p.name # LastChange.name
       /\ \A k \in 1..Len(calls) :
            calls[k].plugin = LastChange.name => calls[k].point = "destroy"

\* the formatters of m, in list order, that declare the format
Declaring(m, format) ==
  SelectSeq(m.formatterPlugins, LAMBDA p : format \in SeqElems(p.supportedFormats))

\* C17: formatData(data, tag) calls the first registered formatter declaring
\* tag, and no other, and returns its string; when no registered formatter
\* declares tag it fails with an error naming tag and calls no formatter.
C17_FormatSelection ==
  [][\A format \in FormatTags :
       (pc = "registry" /\ FormatData(format)) =>
         IF Declaring(pm, format) = <<>>
         THEN /\ err'.kind = "Error"
              /\ err'.code = "No formatter plugin found for format"
              /\ err'.info = <<format>>
              /\ calls' = <<>> /\ returned' = Undefined
         ELSE /\ calls' = <<Call(Declaring(pm, format)[1], "format", 0)>>
              /\ "format" \notin Declaring(pm, format)[1].throws =>
                   (err' = NoError /\ returned' = Text(Declaring(pm, format)[1].name))]_vars

\* C17 witness: csv requested while the only formatter registered declares yaml
C17_Witness ==
  /\ pc = "registry" /\ pm.formatterPlugins = <<PlugB>>
  /\ err.kind = "Error" /\ err.info = <<"csv">> /\ calls = <<>>

\* the plugin formatData selects for the format, the plugin processValue
\* selects for the type; Null when there is none
SelectedFormatter(m, format) ==
  IF Declaring(m, format) = <<>> THEN Null ELSE Some(Declaring(m, format)[1])

SelectedHandler(m, type) ==
  IF type \in DOMAIN m.typePlugins THEN Some(m.typePlugins[type]) ELSE Null

\* the step is the call register(p, { priority })
Registers(p, priority) ==
  /\ pc = "registry"
  /\ history' = Append(history, [op |-> "register", name |-> p.name, id |-> p.id,
                                 priority |-> priority])

\* C18 as stated: in both categories a plugin registered for a tag is the one
\* selected for that tag from then on (replacing whoever declared the tag
\* before), every other tag keeping the plugin it had.
C18_SecondReplacesFirst ==
  [][\A p \in RegistryPlugins, priority \in Priorities :
       Registers(p, priority) =>
         /\ \A type \in TypeTags :
              SelectedHandler(pm', type) =
                IF isTypePlugin(p) /\ type \in SeqElems(p.supportedTypes)
                THEN Some(p) ELSE SelectedHandler(pm, type)
         /\ \A format \in FormatTags :
              SelectedFormatter(pm', format) =
                IF isFormatterPlugin(p) /\ format \in SeqElems(p.supportedFormats)
                THEN Some(p) ELSE SelectedFormatter(pm, format)]_vars

\* C18 amended: a type handler registered for a tag replaces the handler the
\* tag had, every other tag keeping its handler; a formatter registered for a
\* tag is selected for it only if no formatter registered before declares the
\* tag, the first registered one staying selected otherwise.
C18_TypeReplacesFormatterKeeps ==
  [][\A p \in RegistryPlugins, priority \in Priorities :
       Registers(p, priority) =>
         /\ \A type \in TypeTags :
              SelectedHandler(pm', type) =
                IF isTypePlugin(p) /\ type \in SeqElems(p.supportedTypes)
                THEN Some(p) ELSE SelectedHandler(pm, type)
         /\ \A format \in FormatTags :
              SelectedFormatter(pm', format) =
                IF isFormatterPlugin(p) /\ format \in SeqElems(p.supportedFormats)
                   /\ SelectedFormatter(pm, format) = Null
                THEN Some(p) ELSE SelectedFormatter(pm, format)]_vars

\* C18 witness: b registered after a: b handles the type u, a still handles c
\* and is still the formatter of yaml and json
C18_Witness ==
  /\ pc = "registry" /\ Len(history) = 2
  /\ history[1].id = PlugA.id /\ history[2].id = PlugB.id
  /\ SelectedHandler(pm, TagU) = Some(PlugB) /\ SelectedHandler(pm, TagC) = Some(PlugA)
  /\ SelectedFormatter(pm, "yaml") = Some(PlugA)
  /\ SelectedFormatter(pm, "json") = Some(PlugA)

\* what C19 says of one validation call over the validators of pm
AbortsAtFirstFailure ==
  ~NoneThrows(pm.validationPlugins, "validate") =>
    LET n == CalledOf(pm.validationPlugins, "validate") IN
    /\ err'.kind = "PluginError" /\ err'.code = "VALIDATE_DATA_FAILED"
    /\ err'.plugin = pm.validationPlugins[n].name
    /\ returned' = Undefined
    /\ calls' = [k \in 1..n |-> Call(pm.validationPlugins[k], "validate", 0)]

\* C19: if a validator throws during validateData, or during
\* validateParsedData with a manager, the call fails with a plugin error
\* naming that validator, returns no warning list, and the validators after
\* it in the list are not called.
C19_ValidationAborts ==
  [][/\ ValidateDataCall => AbortsAtFirstFailure
     /\ ValidateParsedDataCall => AbortsAtFirstFailure]_vars

\* C19 witness: validators a, t, b; a was called, t threw, b was not called
C19_Witness ==
  /\ pc = "registry" /\ pm.validationPlugins = <<PlugA, PlugT, PlugB>>
  /\ err.code = "VALIDATE_DATA_FAILED" /\ err.plugin = "t"
  /\ calls = <<Call(PlugA, "validate", 0), Call(PlugT, "validate", 0)>>
  /\ returned = Undefined

\* the code of each invocation point
CodeOf(point) ==
  CASE point = "initialize" -> "INIT_FAILED"
    [] point = "beforeParse" -> "BEFORE_PARSE_FAILED"
    [] point = "afterParse" -> "AFTER_PARSE_FAILED"
    [] point = "onKeyValue" -> "ON_KEY_VALUE_FAILED"
    [] point = "onBlockStart" -> "ON_BLOCK_START_FAILED"
    [] point = "onBlockEnd" -> "ON_BLOCK_END_FAILED"
    [] point = "processValue" -> "PROCESS_VALUE_FAILED"
    [] point = "validateValue" -> "VALIDATE_VALUE_FAILED"
    [] point = "validate" -> "VALIDATE_DATA_FAILED"
    [] point = "format" -> "FORMAT_FAILED"
    [] OTHER -> "none"

InvocationPoints ==
  {"initialize", "beforeParse", "afterParse", "onKeyValue", "onBlockStart", "onBlockEnd",
   "processValue", "validateValue", "validate", "format"}

\* the plugin call that raised the error of the last call: the last one logged
Failed == calls[Len(calls)]

\* the plugin objects that can have raised the error
Throwers ==
  {p \in RegistryPlugins :
     p.id = Failed.id /\ Failed.point \in p.throws \cap InvocationPoints}

\* C20 as stated: an error raised by a plugin at any invocation point reaches
\* the caller as a plugin error carrying the plugin's name, the original
\* message and the code of the invocation point, the codes of different
\* points being different.
C20_UniformWrapping ==
  /\ \A p1, p2 \in InvocationPoints : p1 # p2 => CodeOf(p1) # CodeOf(p2)
  /\ (pc = "registry" /\ calls # <<>> /\ Throwers # {})
       => /\ err.kind = "PluginError"
          /\ err.plugin = Failed.plugin
          /\ err.code = CodeOf(Failed.point)
          /\ \E p \in Throwers : err.cause = p.thrown.text

\* C20 amended: the plugin error carries the message property of what the
\* plugin threw if that is a non-empty string, and the text "Unknown error"
\* otherwise (a thrown string, an Error without message).
C20_WrappingWithFallback ==
  /\ \A p1, p2 \in InvocationPoints : p1 # p2 => CodeOf(p1) # CodeOf(p2)
  /\ (pc = "registry" /\ calls # <<>> /\ Throwers # {})
       => /\ err.kind = "PluginError"
          /\ err.plugin = Failed.plugin
          /\ err.code = CodeOf(Failed.point)
          /\ \E p \in Throwers :
               err.cause = IF p.thrown.message = Null \/ p.thrown.message[1] = ""
                           THEN "Unknown error" ELSE p.thrown.message[1]

\* C20 witness: the processValue of the second plugin named a threw a string
C20_Witness ==
  /\ pc = "registry" /\ calls = <<Call(TwinA, "processValue", 0)>>
  /\ err.kind = "PluginError" /\ err.plugin = "a"
  /\ err.code = "PROCESS_VALUE_FAILED" /\ err.cause = "Unknown error"

(***************************************************************************)
(* Lifecycle hooks                                                         *)
(***************************************************************************)

\* p is held by every category of m its members put it in
Classified(m, p) ==
  /\ isTypePlugin(p) =>
       \A k \in 1..Len(p.supportedTypes) :
         SelectedHandler(m, p.supportedTypes[k]) = Some(p)
  /\ isValidationPlugin(p) => p \in SeqElems(m.validationPlugins)
  /\ isFormatterPlugin(p) => p \in SeqElems(m.formatterPlugins)
  /\ isParserPlugin(p) => p \in SeqElems(m.parserPlugins)

\* C21: register(p) calls p.initialize exactly once if p has it and not at
\* all otherwise, p being classified by then (it is in its categories
\* whether or not initialize throws); if initialize throws, register throws
\* a plugin error with code INIT_FAILED naming p, and it throws nothing
\* otherwise.
C21_InitializeOnce ==
  [][\A p \in RegistryPlugins, priority \in Priorities :
       Registers(p, priority) =>
         /\ calls' = IF "initialize" \in p.has
                     THEN <<Call(p, "initialize", 0)>> ELSE <<>>
         /\ Classified(pm', p)
         /\ err' = IF "initialize" \in p.has /\ "initialize" \in p.throws
                   THEN createPluginError(p.name, "INIT_FAILED", p.thrown)
                   ELSE NoError]_vars

\* C21 witness: the initialize of t threw during register(t), t being in the
\* validator list
C21_Witness ==
  /\ pc = "registry" /\ history # <<>> /\ LastChange.op = "register"
  /\ LastChange.id = PlugT.id
  /\ calls = <<Call(PlugT, "initialize", 0)>>
  /\ err.kind = "PluginError" /\ err.code = "INIT_FAILED" /\ err.plugin = "t"
  /\ PlugT \in SeqElems(pm.validationPlugins)

\* the register calls among the first n calls of the history that are made
\* under the name and that no later unregister of the name and no later
\* clear among those n calls has undone
LiveUnder(name, n) ==
  {h \in 1..n :
     /\ history[h].op = "register" /\ history[h].name = name
     /\ \A g \in (h + 1)..n :
          /\ history[g].op # "clear"
          /\ ~(history[g].op = "unregister" /\ history[g].name = name)}

\* no register call was made under a name that was registered at the time
RegisteredOnce ==
  \A h \in 1..Len(history) :
    history[h].op = "register" => LiveUnder(history[h].name, h - 1) = {}

\* the log holds a destroy call of a plugin whose destroy throws
DestroyThrew(log) ==
  \E k \in 1..Len(log) :
    /\ log[k].point = "destroy"
    /\ \E p \in RegistryPlugins : p.id = log[k].id /\ "destroy" \in p.throws

\* the step is a call of unregister or clear
Unregisters ==
  /\ pc = "registry" /\ Len(history') = Len(history) + 1
  /\ LastChange'.op \in {"unregister", "clear"}

\* C22: when a destroy hook throws during unregister(name) or clear(), the
\* call throws nothing; after unregister(name) the name is in no registry
\* entry and no plugin of that name is in a category; after clear() the
\* destroy hook of every registered plugin that has one was called and the
\* registry map and the categories are empty.
C22_DestroySwallowed ==
  [][(Unregisters /\ DestroyThrew(calls')) =>
       /\ err' = NoError
       /\ LastChange'.op = "unregister" =>
            /\ ~isRegistered(pm', LastChange'.name)
            /\ \A p \in Categorised(pm') : p.name # LastChange'.name
       /\ LastChange'.op = "clear" =>
            /\ pm'.plugins = <<>>
            /\ Categorised(pm') = {}
            /\ \A k \in 1..Len(pm.plugins) :
                 "destroy" \in pm.plugins[k].plugin.has =>
                   \E c \in 1..Len(calls') :
                     calls'[c] = Call(pm.plugins[k].plugin, "destroy", 0)]_vars

(***************************************************************************)
(* Structural errors and the syntax of key/value statements                *)
(***************************************************************************)

\* the parse threw a structural error (not the rejection of an empty input)
StructuralError ==
  /\ pc = "failed" /\ err.kind = "DSLParseError"
  /\ err.code # "Input cannot be empty"

\* C23: every structural error thrown by a parse carries the number of a
\* line of the input and the raw text of that line.
C23_ErrorsCarryLine ==
  StructuralError =>
    /\ err.lineNumber \in 1..Len(lines)
    /\ err.line = Some(lines[err.lineNumber])

\* the line at hand is handled as a key/value statement
AtStatementLine ==
  /\ AtLine /\ ~inMultiline /\ ~IsSkipped(rawLine)
  /\ ~TestBegin(Trim(rawLine)) /\ ~TestEnd(Trim(rawLine))

\* the text of the statement before its first colon (the whole statement if
\* it has no colon)
LeftSide(line) ==
  IF IndexOf(Trim(line), ":") = 0 THEN Trim(line)
  ELSE SubSeq(Trim(line), 1, IndexOf(Trim(line), ":") - 1)

AtSigns(s) == {k \in 1..Len(s) : s[k] = "@"}

\* what C24 requires of a statement: a colon, a non-empty trimmed key and, if
\* the left side has an @, exactly one @ with a non-empty trimmed type
WellFormedStatement(line) ==
  LET left == LeftSide(line) IN
  /\ IndexOf(Trim(line), ":") # 0
  /\ IF AtSigns(left) = {} THEN Trim(left) # <<>>
     ELSE /\ Cardinality(AtSigns(left)) = 1
          /\ \E at \in AtSigns(left) :
               /\ Trim(SubSeq(left, 1, at - 1)) # <<>>
               /\ Trim(SubSeq(left, at + 1, Len(left))) # <<>>

\* some frame has the empty string as a key
EmptyKeyStored(hp) == \E f \in 1..Len(hp) : <<>> \in DOMAIN hp[f]

\* C24: a key/value statement is accepted exactly if it is well formed (a
\* non-empty trimmed key and, with an @ on the left side, exactly one @ and a
\* non-empty trimmed type); any other is rejected with a structural error,
\* and no frame ever has the empty string as a key.
C24_KeysWellFormed ==
  [][AtStatementLine =>
       /\ WellFormedStatement(rawLine) => pc' # "failed"
       /\ ~WellFormedStatement(rawLine) => StructuralError'
       /\ ~EmptyKeyStored(heap')]_vars

\* the text of the statement after its first colon, trimmed
RightSide(line) == Trim(SliceFrom(Trim(line), IndexOf(Trim(line), ":")))

\* C25: a key/value statement with nothing but whitespace after the colon
\* makes the parse throw a structural error carrying the number of its line,
\* as one with nothing but whitespace before the colon does.
C25_EmptyValueRejected ==
  [][(AtStatementLine /\ IndexOf(Trim(rawLine), ":") # 0) =>
       /\ Trim(LeftSide(rawLine)) = <<>> =>
            (StructuralError' /\ err'.lineNumber = i + 1)
       /\ RightSide(rawLine) = <<>> =>
            (StructuralError' /\ err'.lineNumber = i + 1)]_vars

(***************************************************************************)
(* The value processor                                                     *)
(***************************************************************************)

\* the raw trimmed value of the statement processed
RawValue == Trim(input)

\* the value is wrapped in a pair of double quotes
Wrapped(v) == Len(v) >= 2 /\ v[1] = "\"" /\ v[Len(v)] = "\""

\* the value with one wrapping pair of double quotes stripped, if present
Unquoted(v) == IF Wrapped(v) THEN SubSeq(v, 2, Len(v) - 1) ELSE v

\* C26: a value wrapped in one pair of double quotes is yielded as the one
\* string between the quotes, also when that string contains a comma.
C26_QuotedIsOneString ==
  (pc = "valued" /\ Wrapped(RawValue)) => returned = Str(Unquoted(RawValue))

\* the positions that bound the comma-separated parts of s, and the n-th of
\* them in ascending order
Cuts(s) == {0, Len(s) + 1} \cup {k \in 1..Len(s) : s[k] = ","}

Cut(s, n) == CHOOSE c \in Cuts(s) : Cardinality({d \in Cuts(s) : d < c}) = n - 1

\* the comma-separated parts of s in order, each trimmed, the empty dropped
Parts(s) ==
  SelectSeq([n \in 1..(Cardinality(Cuts(s)) - 1) |->
               Str(Trim(SubSeq(s, Cut(s, n) + 1, Cut(s, n + 1) - 1)))],
            LAMBDA part : part.s # <<>>)

\* C27: for a raw trimmed value the processor strips one wrapping pair of
\* double quotes if present; if the result contains a comma it yields the
\* list of its comma-separated parts in order, each trimmed and the empty
\* ones dropped, and otherwise the (unquoted) string unchanged.
C27_ValueProcessor ==
  pc = "valued" =>
    returned = IF Includes(Unquoted(RawValue), ",")
               THEN Arr(Parts(Unquoted(RawValue)))
               ELSE Str(Unquoted(RawValue))

(***************************************************************************)
(* Multiline values                                                        *)
(***************************************************************************)

\* the line opens a multiline value when it is read in Normal state
Opens(line) ==
  /\ ~IsSkipped(line) /\ ~TestBegin(Trim(line)) /\ ~TestEnd(Trim(line))
  /\ IndexOf(Trim(line), ":") # 0
  /\ StartsWith(RightSide(line), TripleQuote)

Closes(line) == EndsWith(Trim(line), TripleQuote)

\* the number of the line that opened the multiline value open after the
\* first n lines, 0 if none is open then
RECURSIVE Opener(_)
Opener(n) ==
  IF n = 0 THEN 0
  ELSE IF Opener(n - 1) = 0
       THEN (IF Opens(lines[n]) THEN n ELSE 0)
       ELSE (IF Closes(lines[n]) THEN 0 ELSE Opener(n - 1))

\* the text after the opening marker (if any), the lines between the opening
\* line and the line at hand, and the line at hand trimmed, without its marker
MultilineTexts ==
  LET o    == Opener(i)
      rest == SliceFrom(RightSide(lines[o]), 3)
  IN (IF rest = <<>> THEN <<>> ELSE <<rest>>)
       \o SubSeq(lines, o + 1, i)
       \o <<SliceDropLast(Trim(rawLine), 3)>>

\* C28: the line that closes a multiline value stores under the key of the
\* opening line the string made of the text after the opening marker (if
\* any), the lines in between in order and the closing line without its
\* marker, joined with newlines and trimmed as a whole; the parser is then
\* in Normal state with an empty buffer and no pending key.
C28_MultilineValue ==
  [][AtClosingLine =>
       /\ Opener(i) # 0
       /\ heap' = [heap EXCEPT ![current] =
                     assignValue(heap[current], KeyOfLine(lines[Opener(i)]),
                                 Str(Trim(Join(MultilineTexts, "\n"))))]
       /\ pc' = "parsing" /\ ~inMultiline'
       /\ multilineBuffer' = <<>> /\ multilineKey' = Null]_vars

\* C28 witness: K holds "a\n b \nc" after the lines K: """a, b and c"""
C28_Witness ==
  /\ lines = <<L_KOpenA, L_Mid, L_CloseC>> /\ pc = "done"
  /\ heap[1] = Put(EmptyFrame, <<"K">>,
                   Str(<<"a", "\n", " ", "b", " ", "\n", "c">>))

(***************************************************************************)
(* Two calls with the same arguments                                       *)
(***************************************************************************)

\* the value v of heap hp with every frame reference replaced by the frame
RECURSIVE Resolve(_, _)
Resolve(hp, v) ==
  CASE v.t = "ref" ->
         [t |-> "obj",
          fields |-> [key \in DOMAIN hp[v.id] |-> Resolve(hp, hp[v.id][key])]]
    [] v.t = "arr" -> Arr([k \in 1..Len(v.a) |-> Resolve(hp, v.a[k])])
    [] v.t = "pair" -> TypedPair(v.type, Resolve(hp, v.value))
    [] v.t = "hook" -> Hooked(v.by, Resolve(hp, v.of))
    [] OTHER -> v

\* the frames of heap hp the value v holds, directly or indirectly
RECURSIVE FramesOf(_, _)
FramesOf(hp, v) ==
  CASE v.t = "ref" ->
         {v.id} \cup UNION {FramesOf(hp, hp[v.id][key]) : key \in DOMAIN hp[v.id]}
    [] v.t = "arr" -> UNION {FramesOf(hp, v.a[k]) : k \in 1..Len(v.a)}
    [] v.t = "pair" -> FramesOf(hp, v.value)
    [] v.t = "hook" -> FramesOf(hp, v.of)
    [] OTHER -> {}

\* the second call has ended as the first did
SameOutcome ==
  /\ pc = previous[1].pc /\ err = previous[1].err /\ calls = previous[1].calls
  /\ pc = "done" =>
       /\ Resolve(heap, Ref(result[1]))
            = Resolve(previous[1].heap, Ref(previous[1].result[1]))
       /\ FramesOf(heap, Ref(result[1]))
            \cap FramesOf(previous[1].heap, Ref(previous[1].result[1])) = {}

EntriesUnder(m, name) == {k \in 1..Len(m.plugins) : m.plugins[k].name = name}

\* the list is in descending order of the priorities m holds for its names
ByPriority(m, list) ==
  \A k, l \in 1..Len(list) :
    k < l => PriorityOf(m.plugins, list[k].name) >= PriorityOf(m.plugins, list[l].name)

\* C30: after register(p, { priority }), whether or not the name of p was
\* registered before, getPlugin(name) is p, the registry has exactly one
\* entry under the name, the priority held under the name is the one just
\* given, and the lists p was added to are ordered by the priorities the
\* registry now holds; no other name gains or loses its entry.
C30_NameIsUnique ==
  [][\A p \in RegistryPlugins, priority \in Priorities :
       Registers(p, priority) =>
         /\ isRegistered(pm', p.name) /\ getPlugin(pm', p.name) = p
         /\ Cardinality(EntriesUnder(pm', p.name)) = 1
         /\ PriorityOf(pm'.plugins, p.name) = priority
         /\ isValidationPlugin(p) => ByPriority(pm', pm'.validationPlugins)
         /\ isParserPlugin(p) => ByPriority(pm', pm'.parserPlugins)
         /\ \A name \in PluginNames \ {p.name} :
              /\ isRegistered(pm', name) = isRegistered(pm, name)
              /\ isRegistered(pm, name) =>
                   /\ getPlugin(pm', name) = getPlugin(pm, name)
                   /\ PriorityOf(pm'.plugins, name) = PriorityOf(pm.plugins, name)]_vars

\* C30 witness: the second object named a was registered at priority 1 while
\* a was registered at priority 0: the one entry under a holds the second
C30_Witness ==
  /\ pc = "registry" /\ Len(history) = 2
  /\ history[1].id = PlugA.id /\ history[2].id = TwinA.id
  /\ Len(pm.plugins) = 1 /\ getPlugin(pm, "a") = TwinA
  /\ PriorityOf(pm.plugins, "a") = 1

(***************************************************************************)
(* Roles and categories                                                    *)
(***************************************************************************)

\* the plugin the registry map of m holds under a name is in the list of
\* every role it has
RegisteredAreListed(m) ==
  \A k \in 1..Len(m.plugins) :
    LET p == m.plugins[k].plugin IN
    /\ isValidationPlugin(p) => p \in SeqElems(m.validationPlugins)
    /\ isFormatterPlugin(p) => p \in SeqElems(m.formatterPlugins)
    /\ isParserPlugin(p) => p \in SeqElems(m.parserPlugins)

\* C31: register(p) puts p into the category of every role it has: right
\* after the call processValue selects p for each of its type tags,
\* validateData runs p (unless a validator before it in the list throws,
\* which ends the call), and p is in the formatter and the parse-hook list
\* if it has those roles; and at all times the plugin registered under a
\* name is in the list of each of its roles.
C31_EveryRole ==
  [][/\ RegisteredAreListed(pm')
     /\ \A p \in RegistryPlugins, priority \in Priorities :
          Registers(p, priority) =>
            /\ isTypePlugin(p) =>
                 \A k \in 1..Len(p.supportedTypes) :
                   PM_processValue(pm', <<"v">>, p.supportedTypes[k], 0).calls
                     = <<Call(p, "processValue", 0)>>
            /\ isValidationPlugin(p) =>
                 /\ p \in SeqElems(pm'.validationPlugins)
                 /\ \A at \in 1..Len(pm'.validationPlugins) :
                      (/\ pm'.validationPlugins[at] = p
                       /\ NoneThrows(SubSeq(pm'.validationPlugins, 1, at - 1), "validate"))
                        => PM_validateData(pm').calls[at] = Call(p, "validate", 0)
            /\ isFormatterPlugin(p) => p \in SeqElems(pm'.formatterPlugins)
            /\ isParserPlugin(p) => p \in SeqElems(pm'.parserPlugins)]_vars

\* C31 witness: a, a type handler and a validator, was registered after b;
\* validateData has run b and a, and a is the handler of the type c
C31_Witness ==
  /\ pc = "registry" /\ Len(history) = 2
  /\ history[1].id = PlugB.id /\ history[2].id = PlugA.id
  /\ SelectedHandler(pm, TagC) = Some(PlugA) /\ SelectedHandler(pm, TagU) = Some(PlugA)
  /\ calls = <<Call(PlugB, "validate", 0), Call(PlugA, "validate", 0)>>

(***************************************************************************)
(* The frame a statement is assigned into                                  *)
(***************************************************************************)

\* line n is read in Normal state as a Begin line, as an End line
RealBegin(n) ==
  Opener(n - 1) = 0 /\ ~IsSkipped(lines[n]) /\ TestBegin(Trim(lines[n]))

RealEnd(n) ==
  /\ Opener(n - 1) = 0 /\ ~IsSkipped(lines[n])
  /\ ~TestBegin(Trim(lines[n])) /\ TestEnd(Trim(lines[n]))

\* the numbers of the Begin lines among the first n lines that no End line
\* among them has closed, innermost last
RECURSIVE OpenBegins(_)
OpenBegins(n) ==
  IF n = 0 THEN <<>>
  ELSE IF RealBegin(n) THEN Append(OpenBegins(n - 1), n)
  ELSE IF RealEnd(n) /\ OpenBegins(n - 1) # <<>>
       THEN SubSeq(OpenBegins(n - 1), 1, Len(OpenBegins(n - 1)) - 1)
  ELSE OpenBegins(n - 1)

\* the frame of the innermost block open at the line at hand: the root
\* frame, or the frame the innermost open Begin line made (the k-th Begin
\* line of the input makes frame k + 1)
InnermostFrame ==
  IF OpenBegins(i) = <<>> THEN 1
  ELSE 1 + Cardinality({k \in 1..OpenBegins(i)[Len(OpenBegins(i))] : RealBegin(k)})

\* only frame f changes, and it has the key afterwards
AssignedInto(f, key) ==
  /\ Len(heap') = Len(heap)
  /\ \A g \in 1..Len(heap) : g # f => heap'[g] = heap[g]
  /\ key \in DOMAIN heap'[f]

\* C32: a key/value statement (its closing line, for a multiline value) is
\* assigned into the frame of the innermost block open at that line and
\* changes no other frame: inside Begin X ... End X that is the frame of
\* that block instance, after End X the enclosing frame again.
C32_InnermostFrame ==
  [][/\ (AtStatementLine /\ pc' # "failed" /\ ~Opens(rawLine)) =>
          AssignedInto(InnermostFrame, KeyOfLine(rawLine))
     /\ (AtStatementLine /\ pc' # "failed" /\ Opens(rawLine)) => heap' = heap
     /\ AtClosingLine =>
          AssignedInto(InnermostFrame, KeyOfLine(lines[Opener(i)]))]_vars

\* C32 witness: Begin X / X: 2 / End X / X: 2 parsed without manager: the
\* first statement is in the block, the second in the root frame
C32_Witness ==
  /\ lines = <<L_BeginX, L_X2, L_EndX, L_X2>> /\ pc = "done" /\ ~pm.present
  /\ Len(heap) = 2 /\ heap[2] = Put(EmptyFrame, <<"X">>, Str(<<"2">>))
  /\ Get(heap[1], <<"X">>) = Arr(<<Ref(2), Str(<<"2">>)>>)

(***************************************************************************)
(* The categories and the registry map                                     *)
(***************************************************************************)

NoDuplicates(list) ==
  \A k, l \in 1..Len(list) : list[k] = list[l] => k = l

\* C33: after any sequence of register, unregister and clear calls every
\* plugin in a category is the plugin the registry map holds under its
\* name, no plugin object occurs twice in a list, and after clear() the
\* four categories are empty.
C33_CategoriesMatchRegistry ==
  /\ \A p \in Categorised(pm) :
       isRegistered(pm, p.name) /\ getPlugin(pm, p.name) = p
  /\ NoDuplicates(pm.validationPlugins)
  /\ NoDuplicates(pm.formatterPlugins)
  /\ NoDuplicates(pm.parserPlugins)
  /\ (history # <<>> /\ LastChange.op = "clear") => Categorised(pm) = {}

(***************************************************************************)
(* A register call that fails                                              *)
(***************************************************************************)

\* C34: a register call that fails because initialize throws leaves the
\* registry as it was before the call: the registry map and the four
\* categories are unchanged and the plugin is not registered by the call.
C34_FailedRegisterChangesNothing ==
  [][\A p \in RegistryPlugins, priority \in Priorities :
       (Registers(p, priority) /\ err'.kind = "PluginError" /\ err'.code = "INIT_FAILED")
         => /\ pm' = pm
            /\ isRegistered(pm', p.name) = isRegistered(pm, p.name)]_vars

(***************************************************************************)
(* The type tags an unregister call removes                                *)
(***************************************************************************)

\* the step is the call unregister(pluginName)
UnregistersName(pluginName) ==
  /\ pc = "registry"
  /\ history' = Append(history, [op |-> "unregister", name |-> pluginName, id |-> 0,
                                 priority |-> 0])

\* C35: unregister(name) removes only the type tags the plugin of that name
\* currently owns: a tag whose selected handler is a plugin of another name
\* keeps that handler, and processValue for the tag still invokes it.
C35_OnlyOwnedTags ==
  [][\A pluginName \in PluginNames, type \in DOMAIN pm.typePlugins :
       (UnregistersName(pluginName) /\ pm.typePlugins[type].name # pluginName)
         => /\ SelectedHandler(pm', type) = SelectedHandler(pm, type)
            /\ PM_processValue(pm', <<"v">>, type, 0).calls
                 = <<Call(pm.typePlugins[type], "processValue", 0)>>]_vars

(***************************************************************************)
(* Parsing without a plugin manager                                        *)
(***************************************************************************)

\* a list that holds a block document and a value that is no block document
MixedList(value) ==
  /\ value.t = "arr"
  /\ \E k \in 1..Len(value.a) : value.a[k].t = "ref"
  /\ \E k \in 1..Len(value.a) : value.a[k].t # "ref"

\* C36: without a plugin manager a parse that fails fails with a
\* DSLParseError, whatever the input, and no frame ever holds a list that
\* mixes block documents with scalar values.
C36_OnlyParseErrors ==
  ~pm.present =>
    /\ pc = "failed" => err.kind = "DSLParseError"
    /\ \A f \in 1..Len(heap) : \A key \in DOMAIN heap[f] : ~MixedList(heap[f][key])

(***************************************************************************)
(* A manager without plugins                                               *)
(***************************************************************************)

\* C37: a parse with a plugin manager that has no plugins and a parse of the
\* same input without a plugin manager end alike: both fail with the same
\* error or both return documents that are equal.
C37_EmptyManagerIsNoManager ==
  (Finished /\ previous # Null) =>
    /\ pc = previous[1].pc
    /\ err = previous[1].err
    /\ pc = "done" =>
         Resolve(heap, Ref(result[1]))
           = Resolve(previous[1].heap, Ref(previous[1].result[1]))

(***************************************************************************)
(* End lines that close nothing                                            *)
(***************************************************************************)

\* the End line at hand does not close the innermost open block
ClosesNothing ==
  /\ AtEndLine
  /\ (blockNames = <<>> \/ OpenNames[Len(OpenNames)] # EndName(Trim(rawLine)))

\* C38: for an End line with no block open, or naming another block than
\* the innermost open one, the parse fails with the structural error and no
\* onBlockEnd hook is called for the line.
C38_HooksOnlyForClosingEnd ==
  [][(ClosesNothing /\ pm.present) =>
       /\ CallsAt(calls', "onBlockEnd", i + 1) = <<>>
       /\ pc' = "failed" /\ err'.kind = "DSLParseError"]_vars

(***************************************************************************)
(* The order of the plugin calls of one parse                              *)
(***************************************************************************)

\* the place of a call in a parse: beforeParse, the lines in order, afterParse
Rank(c) ==
  CASE c.point = "beforeParse" -> 0
    [] c.point = "afterParse" -> Len(lines) + 1
    [] OTHER -> c.lineNumber

\* the calls are logged in the order validation (no call), beforeParse chain
\* once, per-line calls in line order with processValue before onKeyValue,
\* afterParse chain at most once and only after both end-of-input checks passed
CallsInOrder ==
  /\ (pc = "start" \/ validateInput(input) # NoError) => calls = <<>>
  /\ \A k, l \in 1..Len(calls) : k < l =>
       /\ Rank(calls[k]) <= Rank(calls[l])
       /\ ~(/\ calls[k].lineNumber = calls[l].lineNumber
            /\ calls[k].point = "onKeyValue" /\ calls[l].point = "processValue")
  /\ (pc # "start" /\ validateInput(input) = NoError) =>
       CallsAt(calls, "beforeParse", 0) = ExpectedCalls("beforeParse", 0)
  /\ CallsAt(calls, "afterParse", 0) \in {<<>>, ExpectedCalls("afterParse", 0)}
  /\ pc = "done" => CallsAt(calls, "afterParse", 0) = ExpectedCalls("afterParse", 0)
  /\ CallsAt(calls, "afterParse", 0) # <<>> =>
       /\ Finished /\ i = Len(lines)
       /\ Len(stack) = 1 /\ ~inMultiline

\* C39: in a parse with a plugin manager the calls are made in the order
\* input validation, beforeParse chain once, per-line hooks in line order,
\* afterParse chain once after both end-of-input checks passed; a parse that
\* fails has made no afterParse call.
C39_HookOrder ==
  pm.present =>
    /\ CallsInOrder
    /\ pc = "failed" => CallsAt(calls, "afterParse", 0) = <<>>

\* C39 as amended: the same order; a parse that fails has made an afterParse
\* call only when the failure is the error of an afterParse hook that threw.
C39_HookOrderAmended ==
  pm.present =>
    /\ CallsInOrder
    /\ (pc = "failed" /\ CallsAt(calls, "afterParse", 0) # <<>>) =>
         /\ err.kind = "PluginError" /\ err.code = "AFTER_PARSE_FAILED"
         /\ err.plugin = calls[Len(calls)].plugin
    /\ (pc = "failed" /\ err.code # "AFTER_PARSE_FAILED") =>
         CallsAt(calls, "afterParse", 0) = <<>>

\* C39 witness: BEGIN A / A@u: 1 / end A parsed with the url type handler,
\* the observer and the after-thrower: every kind of call was made, in
\* order, and the parse failed in the afterParse chain
C39_Witness ==
  /\ pc = "failed" /\ err.code = "AFTER_PARSE_FAILED"
  /\ pm.parserPlugins = <<ObserverPlugin, AfterThrower>>
  /\ calls = <<Call(AfterThrower, "beforeParse", 0),
               Call(ObserverPlugin, "onBlockStart", 1),
               Call(UrlTypePlugin, "processValue", 2),
               Call(ObserverPlugin, "onKeyValue", 2),
               Call(ObserverPlugin, "onBlockEnd", 3),
               Call(ObserverPlugin, "afterParse", 0),
               Call(AfterThrower, "afterParse", 0)>>

(***************************************************************************)
(* Plugins registered with { enabled: false }                              *)
(***************************************************************************)

\* the methods the pipeline calls invoke
PipelinePoints ==
  {"processValue", "validate", "format", "beforeParse", "afterParse", "onKeyValue",
   "onBlockStart", "onBlockEnd"}

\* the registry holds the name with the option enabled: false
Disabled(m, name) ==
  \E k \in 1..Len(m.plugins) : m.plugins[k].name = name /\ ~m.plugins[k].enabled

\* C40: no pipeline call (processValue, validateData, formatData,
\* beforeParse, afterParse, onKeyValue, onBlockStart, onBlockEnd) invokes a
\* method of a plugin that is registered with enabled: false.
C40_DisabledNotInvoked ==
  \A k \in 1..Len(calls) :
    calls[k].point \in PipelinePoints => ~Disabled(pm, calls[k].plugin)

====
